---- MODULE Spec2Model ----
(***************************************************************************)
(* A model of trackr-mobile's derived-metrics core: the habit streak       *)
(* engine (services/calculations.ts), the habit entry store                *)
(* (contexts/HabitsContext.tsx) and the budget-spend cache                 *)
(* (contexts/FinanceContext.tsx).                                          *)
(*                                                                         *)
(* Dates are calendar days, numbered as integers.  Day 0 is a Sunday and   *)
(* the first day of a month.  Every date the program stores is truncated   *)
(* to its day (startOfDay, format 'yyyy-MM-dd'), so the day number is all  *)
(* that the code compares.                                                 *)
(***************************************************************************)
EXTENDS Integers, Sequences, FiniteSets, TLC

VARIABLES
    entries,      \* calculateStreak: the entry history handed to the function
    streak,       \* calculateStreak: its result, or NoResult before the call
    habits,       \* HabitsContext: useState habits (newest first)
    habitEntries, \* HabitsContext: useState habitEntries (newest first)
    dbHabits,     \* table habits, rows in insertion order
    dbHabitEntries, \* table habit_entries, rows in insertion order
    nextId,       \* the next Date.now() habit id
    calls,        \* the markHabit* calls whose asynchronous steps are pending
    transactions, \* FinanceContext: useState transactions (newest first)
    budgets,      \* FinanceContext: useState budgets
    dbTransactions, \* table transactions, rows in insertion order
    dbBudgets,    \* table budgets, rows in insertion order
    nextFinId,    \* the next Date.now() id of a transaction or budget
    fin,          \* the finance handler in progress, or the one that returned last
    alerted,      \* budgets scheduleBudgetAlert was called for by the last handler
    nowTime,      \* the instant new Date() gives when the finance screens render
    shown,        \* what the finance screens computed at their last render
    goals,        \* FinanceContext: useState goals
    dbGoals,      \* table goals, rows in insertion order
    nextGoalId,   \* the next Date.now() goal id
    selectedGoal, \* GoalsScreen: useState selectedGoal (the contribution form's goal)
    ledger,       \* per goal: its first amount plus every delta applied since
    rate,         \* calculateCompletionRate: its last call and result
    streakAgain,  \* calculateStreak: the result of a second call on the history
    weightEntries, \* HealthContext: useState weightEntries
    dbWeightEntries, \* table weight_entries, rows in insertion order
    nextWeightId, \* the next Date.now() weight entry id
    userProfile,  \* HealthContext: useState userProfile
    measurements, \* the measurements handed to calculateBodyFatFromMeasurements
    bodyFat,      \* calculateBodyFatFromMeasurements: its outcome
    bmi,          \* the bmi handed to getBMICategory, in hundredths
    bmiCategory,  \* getBMICategory: its result
    contribs,     \* the addGoalContribution calls whose steps are pending
    settings,     \* SettingsContext: useState settings
    dbSettings,   \* table settings, the row 'default'
    upd           \* the updateSettings call in progress, or the last one

streakVars == <<entries, streak>>
habitVars == <<habits, habitEntries, dbHabits, dbHabitEntries, nextId, calls>>
finVars == <<transactions, budgets, dbTransactions, dbBudgets, nextFinId, fin,
             alerted>>
viewVars == <<nowTime, shown>>
goalVars == <<goals, dbGoals, nextGoalId, selectedGoal, ledger>>
healthVars == <<weightEntries, dbWeightEntries, nextWeightId>>
calcVars == <<userProfile, measurements, bodyFat, bmi, bmiCategory>>
settingsVars == <<settings, dbSettings, upd>>
moreVars == <<streakAgain, healthVars, calcVars, contribs, settingsVars>>
restVars == <<viewVars, goalVars, rate, moreVars>>
vars == <<entries, streak, habits, habitEntries, dbHabits, dbHabitEntries,
          nextId, calls, transactions, budgets, dbTransactions, dbBudgets,
          nextFinId, fin, alerted, nowTime, shown, goals, dbGoals, nextGoalId,
          selectedGoal, ledger, rate, streakAgain, weightEntries, dbWeightEntries,
          nextWeightId, userProfile, measurements, bodyFat, bmi, bmiCategory,
          contribs, settings, dbSettings, upd>>

---------------------------------------------------------------------------
(* Bounds *)

\* "now" falls on this day
Today == 17
\* histories hold entries dated Today - DayRange .. Today
DayRange == 4
\* longest history handed to calculateStreak
MaxEntries == 4

NoResult == [current |-> -1, longest |-> -1]

Max(a, b) == IF a >= b THEN a ELSE b

\* time-of-day steps in a day: an instant is day * TicksPerDay + step, and
\* step 0 is local midnight
TicksPerDay == 2

NoShown == [rendered |-> FALSE]
NoGoal == [id |-> 0, targetAmount |-> 0, currentAmount |-> 0]
NoRate == [totalDays |-> -1, num |-> 0, den |-> 1]
NoProfile == [gender |-> "none"]
NoMeasurements == [height |-> 0, waist |-> 0, neck |-> 0, hip |-> 0]
NoBodyFat == [called |-> FALSE]
NoCategory == "none"
IdleContribution == [pc |-> "idle", goalId |-> 0, amount |-> 0, newCurrentAmount |-> 0,
                     closure |-> <<>>]
DefaultSettings == [currency |-> "USD", theme |-> "light"]
IdleUpdate == [pc |-> "idle", ready |-> FALSE, retries |-> 0, attempts |-> 0,
               written |-> FALSE, thrown |-> FALSE, updatedSettings |-> DefaultSettings]

---------------------------------------------------------------------------
(* services/calculations.ts: calculateStreak *)

\* date-fns differenceInDays(later, earlier): the number of full days between
\* the two instants.  Entry dates are local midnights and "now" lies within
\* day Today, so for dates not after "now" it is the difference of the days.
differenceInDays(later, earlier) == later - earlier

\* One step of the stable sort: e goes behind every element dated on or after it
RECURSIVE InsertDesc(_, _)
InsertDesc(e, s) ==
    IF s = <<>> THEN <<e>>
    ELSE IF Head(s).date >= e.date THEN <<Head(s)>> \o InsertDesc(e, Tail(s))
    ELSE <<e>> \o s

\* [...entries].sort((a, b) => b.date.getTime() - a.date.getTime())
RECURSIVE SortDesc(_)
SortDesc(s) ==
    IF s = <<>> THEN <<>>
    ELSE InsertDesc(s[Len(s)], SortDesc(SubSeq(s, 1, Len(s) - 1)))

\* calculateStreak's loop with the gap test dropped: every completed entry
\* after the first extends the run
RECURSIVE StreakLoopNoGap(_, _, _, _, _, _)
StreakLoopNoGap(sortedEntries, now, i, currentStreak, longestStreak, tempStreak) ==
    IF i > Len(sortedEntries)
    THEN [current |-> currentStreak, longest |-> longestStreak]
    ELSE LET entry == sortedEntries[i] IN
         IF ~entry.completed
         THEN StreakLoopNoGap(sortedEntries, now, i + 1,
                              IF i = 1 THEN 0 ELSE currentStreak, longestStreak, 0)
         ELSE IF i = 1
         THEN StreakLoopNoGap(sortedEntries, now, i + 1,
                              IF now - entry.date <= 1 THEN 1 ELSE 0,
                              Max(longestStreak, 1), 1)
         ELSE StreakLoopNoGap(sortedEntries, now, i + 1, currentStreak,
                              Max(longestStreak, tempStreak + 1), tempStreak + 1)

\* calculateStreak's loop with the age test of the first entry dropped
RECURSIVE StreakLoopAnyAge(_, _, _, _, _, _)
StreakLoopAnyAge(sortedEntries, now, i, currentStreak, longestStreak, tempStreak) ==
    IF i > Len(sortedEntries)
    THEN [current |-> currentStreak, longest |-> longestStreak]
    ELSE LET entry == sortedEntries[i] IN
         IF ~entry.completed
         THEN StreakLoopAnyAge(sortedEntries, now, i + 1,
                               IF i = 1 THEN 0 ELSE currentStreak, longestStreak, 0)
         ELSE IF i = 1
         THEN StreakLoopAnyAge(sortedEntries, now, i + 1, 1,
                               Max(longestStreak, 1), 1)
         ELSE LET temp == IF sortedEntries[i - 1].date - entry.date = 1
                          THEN tempStreak + 1 ELSE 1
              IN  StreakLoopAnyAge(sortedEntries, now, i + 1, currentStreak,
                                   Max(longestStreak, temp), temp)

\* calculateStreak's loop without the test of entry.completed
RECURSIVE StreakLoopCountsAll(_, _, _, _, _, _)
StreakLoopCountsAll(sortedEntries, now, i, currentStreak, longestStreak, tempStreak) ==
    IF i > Len(sortedEntries)
    THEN [current |-> currentStreak, longest |-> longestStreak]
    ELSE LET entry == sortedEntries[i] IN
         IF i = 1
         THEN LET daysSinceLastEntry == differenceInDays(now, entry.date) IN
              StreakLoopCountsAll(sortedEntries, now, i + 1,
                         IF daysSinceLastEntry <= 1 THEN 1 ELSE 0,
                         Max(longestStreak, 1), 1)
         ELSE LET daysBetween ==
                      differenceInDays(sortedEntries[i - 1].date, entry.date)
                  temp == IF daysBetween = 1 THEN tempStreak + 1 ELSE 1
              IN  StreakLoopCountsAll(sortedEntries, now, i + 1, currentStreak,
                             Max(longestStreak, temp), temp)

\* the for loop of calculateStreak, from index i on
RECURSIVE StreakLoop(_, _, _, _, _, _)
StreakLoop(sortedEntries, now, i, currentStreak, longestStreak, tempStreak) ==
    IF i > Len(sortedEntries)
    THEN [current |-> currentStreak, longest |-> longestStreak]
    ELSE LET entry == sortedEntries[i] IN
         IF ~entry.completed
         THEN StreakLoop(sortedEntries, now, i + 1,
                         IF i = 1 THEN 0 ELSE currentStreak, longestStreak, 0)
         ELSE IF i = 1
         THEN LET daysSinceLastEntry == differenceInDays(now, entry.date) IN
              StreakLoop(sortedEntries, now, i + 1,
                         IF daysSinceLastEntry <= 1 THEN 1 ELSE 0,
                         Max(longestStreak, 1), 1)
         ELSE LET daysBetween ==
                      differenceInDays(sortedEntries[i - 1].date, entry.date)
                  temp == IF daysBetween = 1 THEN tempStreak + 1 ELSE 1
              IN  StreakLoop(sortedEntries, now, i + 1, currentStreak,
                             Max(longestStreak, temp), temp)

calculateStreak(es, now) ==
    IF Len(es) = 0 THEN [current |-> 0, longest |-> 0]
    ELSE StreakLoop(SortDesc(es), now, 1, 0, 0, 0)

---------------------------------------------------------------------------
(* The specification of calculateStreak as a function of its input *)

StreakDays == (Today - DayRange)..Today
StreakEntry == [date : StreakDays, completed : BOOLEAN]
Histories == UNION {[1..n -> StreakEntry] : n \in 0..MaxEntries}

CalculateStreak ==
    /\ streak = NoResult
    /\ streak' = calculateStreak(entries, Today)
    /\ UNCHANGED <<entries, habitVars, finVars, restVars>>

\* the caller's array after a calculateStreak that sorted it in place
entriesAfterSortInPlace(es) == SortDesc(es)

\* the caller's array after calculateStreak: [...entries] is sorted, not entries
entriesAfterCalculateStreak(es) == es

\* the first of two calculateStreak calls on the history
CalculateStreakFirst ==
    /\ streak = NoResult
    /\ streak' = calculateStreak(entries, Today)
    /\ entries' = entriesAfterCalculateStreak(entries)
    /\ UNCHANGED <<habitVars, finVars, restVars>>

\* the second call, at the same current time
CalculateStreakAgain ==
    /\ streak # NoResult
    /\ streakAgain = NoResult
    /\ streakAgain' = calculateStreak(entries, Today)
    /\ entries' = entriesAfterCalculateStreak(entries)
    /\ UNCHANGED <<streak, habitVars, finVars, viewVars, goalVars, rate, healthVars,
                 calcVars, contribs, settingsVars>>

---------------------------------------------------------------------------
(* services/calculations.ts: calculateCompletionRate *)

\* calculateCompletionRate counting every entry, completed or not
calculateCompletionRateAll(es, totalDays) ==
    IF totalDays = 0 THEN [num |-> 0, den |-> 1]
    ELSE [num |-> Len(es) * 100, den |-> totalDays]

\* calculateCompletionRate dividing by the number of entries it was given
calculateCompletionRateOfEntries(es, totalDays) ==
    IF totalDays = 0 \/ es = <<>> THEN [num |-> 0, den |-> 1]
    ELSE LET completedDays == Cardinality({i \in DOMAIN es : es[i].completed})
         IN  [num |-> completedDays * 100, den |-> Len(es)]

\* (completedDays / totalDays) * 100, kept as the fraction num / den
calculateCompletionRate(es, totalDays) ==
    IF totalDays = 0 THEN [num |-> 0, den |-> 1]
    ELSE LET completedDays == Cardinality({i \in DOMAIN es : es[i].completed})
         IN  [num |-> completedDays * 100, den |-> totalDays]

---------------------------------------------------------------------------
(* contexts/HabitsContext.tsx: the habit and habit entry store *)

\* habits are logged on the days Today - LogRange .. Today
LogRange == 2
\* habits created in a run
MaxHabits == 2
\* largest targetCount and count used (the form allows up to 20)
MaxTarget == 2
\* rows the habit_entries table holds in a run
MaxRows == 3
\* the form's smallest targetCount
MinTarget == 1
\* the window of calculateHabitStreak's completion rate
RateDays == 30

LogDays == (Today - LogRange)..Today
HabitIds == 1..MaxHabits
Targets == MinTarget..MaxTarget
Counts == 1..MaxTarget

NoEntry == [habitId |-> 0, date |-> -1, completed |-> FALSE, count |-> 0]

\* habits.find(h => h.id === habitId): the habits with that id, in list order
FindHabit(hs, habitId) == SelectSeq(hs, LAMBDA h : h.id = habitId)

\* the entry predicate  e.habitId === habitId && format(e.date) === dateStr
IsEntryOf(e, habitId, date) == e.habitId = habitId /\ e.date = date

\* SELECT * FROM habit_entries WHERE habit_id = ? AND date = ?  (getFirstAsync)
dbSelectHabitEntry(rows, habitId, date) ==
    \E i \in DOMAIN rows : IsEntryOf(rows[i], habitId, date)

\* UPDATE habit_entries SET completed = ?, count = ? WHERE habit_id = ? AND date = ?
dbUpdateHabitEntry(rows, habitId, date, isCompleted, count) ==
    [i \in DOMAIN rows |->
        IF IsEntryOf(rows[i], habitId, date)
        THEN [rows[i] EXCEPT !.completed = isCompleted, !.count = count]
        ELSE rows[i]]

\* INSERT INTO habit_entries (id, habit_id, date, completed, count, ...)
dbInsertHabitEntry(rows, habitId, date, isCompleted, count) ==
    Append(rows, [habitId |-> habitId, date |-> date,
                  completed |-> isCompleted, count |-> count])

\* habitEntries.map(e => match ? { ...e, completed, count } : e)
mapHabitEntries(es, habitId, date, isCompleted, count) ==
    [i \in DOMAIN es |->
        IF IsEntryOf(es[i], habitId, date)
        THEN [es[i] EXCEPT !.completed = isCompleted, !.count = count]
        ELSE es[i]]

\* [newEntry, ...habitEntries]
prependHabitEntry(es, habitId, date, isCompleted, count) ==
    <<[habitId |-> habitId, date |-> date,
       completed |-> isCompleted, count |-> count]>> \o es

\* const isCompleted = count >= habit.targetCount
IsCompleted(count, habit) == count >= habit.targetCount

\* markHabitComplete's write without the upsert: it inserts whatever exists
markCompleteWriteInsertOnly(rows, existing, habitId, date, isCompleted, count) ==
    dbInsertHabitEntry(rows, habitId, date, isCompleted, count)

\* markHabitComplete's database write, given what its SELECT found
markCompleteWrite(rows, existing, habitId, date, isCompleted, count) ==
    IF existing
    THEN dbUpdateHabitEntry(rows, habitId, date, isCompleted, count)
    ELSE dbInsertHabitEntry(rows, habitId, date, isCompleted, count)

\* markHabitComplete's setHabitEntries, over the habitEntries of its closure
markCompleteSet(es, existing, habitId, date, isCompleted, count) ==
    IF existing
    THEN mapHabitEntries(es, habitId, date, isCompleted, count)
    ELSE prependHabitEntry(es, habitId, date, isCompleted, count)

\* markHabitComplete run from start to end with nothing in between: the
\* tables and the state it leaves ("thrown" when the habit is not found)
markHabitComplete(hs, es, rows, habitId, date, count) ==
    LET found == FindHabit(hs, habitId) IN
    IF found = <<>>
    THEN [thrown |-> TRUE, rows |-> rows, entries |-> es]
    ELSE LET isCompleted == IsCompleted(count, Head(found))
             existing == dbSelectHabitEntry(rows, habitId, date)
         IN  [thrown |-> FALSE,
              rows |-> markCompleteWrite(rows, existing, habitId, date,
                                         isCompleted, count),
              entries |-> markCompleteSet(es, existing, habitId, date,
                                          isCompleted, count)]

\* markHabitIncomplete run from start to end with nothing in between
markHabitIncomplete(es, rows, habitId, date) ==
    [thrown |-> FALSE,
     rows |-> dbUpdateHabitEntry(rows, habitId, date, FALSE, 0),
     entries |-> mapHabitEntries(es, habitId, date, FALSE, 0)]

\* habitEntries.find(e => match) || null
getHabitEntry(es, habitId, date) ==
    LET found == SelectSeq(es, LAMBDA e : IsEntryOf(e, habitId, date))
    IN  IF found = <<>> THEN NoEntry ELSE Head(found)

\* getTodaysHabits: every habit with today's completed and count
getTodaysHabits(hs, es, now) ==
    [i \in DOMAIN hs |->
        LET found == SelectSeq(es, LAMBDA e : IsEntryOf(e, hs[i].id, now))
        IN  [habit |-> hs[i],
             completed |-> IF found = <<>> THEN FALSE ELSE Head(found).completed,
             count |-> IF found = <<>> THEN 0 ELSE Head(found).count]]

\* e.date >= cutoffDate, where cutoffDate is "now" moved back by days: "now"
\* lies within day `now`, entry dates are midnights
AfterCutoff(e, now, days) == e.date > now - days

\* getHabitCompletionRate(habitId, days)
getHabitCompletionRate(es, habitId, days, now) ==
    calculateCompletionRate(
        SelectSeq(es, LAMBDA e : e.habitId = habitId /\ AfterCutoff(e, now, days)),
        days)

\* calculateHabitStreak(habitId)
calculateHabitStreak(hs, es, habitId, now) ==
    IF FindHabit(hs, habitId) = <<>>
    THEN [currentStreak |-> 0, longestStreak |-> 0, lastCompletedDate |-> -1,
          completionRate |-> [num |-> 0, den |-> 1]]
    ELSE LET own == SortDesc(SelectSeq(es, LAMBDA e : e.habitId = habitId))
             s == calculateStreak(own, now)
             done == SelectSeq(own, LAMBDA e : e.completed)
             recent == SelectSeq(own, LAMBDA e : AfterCutoff(e, now, RateDays))
         IN  [currentStreak |-> s.current, longestStreak |-> s.longest,
              lastCompletedDate |-> IF done = <<>> THEN -1 ELSE Head(done).date,
              completionRate |-> calculateCompletionRate(recent, RateDays)]

\* the totalDays the rate is asked for: none, one, as many as entries, the
\* screens' window
RateTotals == {0, 1, MaxEntries, RateDays}

\* calculateCompletionRate(entries, totalDays), applied once to the history
CalculateCompletionRate(totalDays) ==
    /\ rate = NoRate
    /\ LET r == calculateCompletionRate(entries, totalDays)
       IN  rate' = [totalDays |-> totalDays, num |-> r.num, den |-> r.den]
    /\ UNCHANGED <<streakVars, habitVars, finVars, viewVars, goalVars, moreVars>>

\* HabitsDashboard: (h.count / h.habit.targetCount) * 100, as a fraction
habitProgress(h) == [num |-> h.count * 100, den |-> h.habit.targetCount]

\* sum + progress on fractions
AddProgress(a, b) == [num |-> a.num * b.den + b.num * a.den, den |-> a.den * b.den]

\* habitProgressList.reduce((sum, progress) => sum + progress, 0)
RECURSIVE SumProgress(_)
SumProgress(list) ==
    IF list = <<>> THEN [num |-> 0, den |-> 1]
    ELSE AddProgress(Head(list), SumProgress(Tail(list)))

\* HabitsDashboard's completionPercentage over getTodaysHabits()
completionPercentage(todaysHabits) ==
    LET habitProgressList == [i \in DOMAIN todaysHabits |-> habitProgress(todaysHabits[i])]
        sum == SumProgress(habitProgressList)
    IN  IF Len(todaysHabits) > 0
        THEN [num |-> sum.num, den |-> sum.den * Len(todaysHabits)]
        ELSE [num |-> 0, den |-> 1]

\* dates the context's markHabitComplete accepts: any, tomorrow included
AnyDays == (Today - 1)..(Today + 1)

---------------------------------------------------------------------------
(* HabitsContext.tsx: the handlers, each run from start to end *)

\* calls whose asynchronous steps may be pending at once
MaxCalls == 2

CallIds == 1..MaxCalls
IdleCall == [pc |-> "idle", op |-> "none", habitId |-> 0, date |-> 0, count |-> 0,
             isCompleted |-> FALSE, existing |-> FALSE, closure |-> <<>>]

NoCallPending == \A k \in CallIds : calls[k].pc = "idle"

\* addHabit: INSERT INTO habits, then setHabits([newHabit, ...habits])
AddHabit(targetCount) ==
    /\ NoCallPending
    /\ nextId <= MaxHabits
    /\ dbHabits' = Append(dbHabits, [id |-> nextId, targetCount |-> targetCount])
    /\ habits' = <<[id |-> nextId, targetCount |-> targetCount]>> \o habits
    /\ nextId' = nextId + 1
    /\ UNCHANGED <<habitEntries, dbHabitEntries, calls,
                 streakVars, finVars, restVars>>

\* habits.map(h => h.id === id ? { ...h, ...updates } : h), also the UPDATE's effect
setTargetCount(hs, id, targetCount) ==
    [i \in DOMAIN hs |->
        IF hs[i].id = id THEN [hs[i] EXCEPT !.targetCount = targetCount] ELSE hs[i]]

\* updateHabit(id, { targetCount }): UPDATE habits, then setHabits(habits.map(...))
UpdateHabit(id, targetCount) ==
    /\ NoCallPending
    /\ FindHabit(habits, id) # <<>>
    /\ dbHabits' = setTargetCount(dbHabits, id, targetCount)
    /\ habits' = setTargetCount(habits, id, targetCount)
    /\ UNCHANGED <<habitEntries, dbHabitEntries, nextId, calls,
                 streakVars, finVars, restVars>>

\* deleteHabit that leaves the habit's entries behind
DeleteHabitOnly(id) ==
    /\ NoCallPending
    /\ FindHabit(habits, id) # <<>>
    /\ dbHabits' = SelectSeq(dbHabits, LAMBDA h : h.id # id)
    /\ habits' = SelectSeq(habits, LAMBDA h : h.id # id)
    /\ UNCHANGED <<habitEntries, dbHabitEntries, nextId, calls,
                 streakVars, finVars, restVars>>

\* deleteHabit: DELETE FROM habits, DELETE FROM habit_entries, then both filters
DeleteHabit(id) ==
    /\ NoCallPending
    /\ FindHabit(habits, id) # <<>>
    /\ dbHabits' = SelectSeq(dbHabits, LAMBDA h : h.id # id)
    /\ dbHabitEntries' = SelectSeq(dbHabitEntries, LAMBDA e : e.habitId # id)
    /\ habits' = SelectSeq(habits, LAMBDA h : h.id # id)
    /\ habitEntries' = SelectSeq(habitEntries, LAMBDA e : e.habitId # id)
    /\ UNCHANGED <<nextId, calls,
                 streakVars, finVars, restVars>>

\* whether one more habit_entries row fits the run's bound
RoomFor(habitId, date) ==
    dbSelectHabitEntry(dbHabitEntries, habitId, date) \/ Len(dbHabitEntries) < MaxRows

MarkHabitComplete(habitId, date, count) ==
    /\ NoCallPending
    /\ RoomFor(habitId, date)
    /\ LET r == markHabitComplete(habits, habitEntries, dbHabitEntries,
                                  habitId, date, count)
       IN  /\ dbHabitEntries' = r.rows
           /\ habitEntries' = r.entries
    /\ UNCHANGED <<habits, dbHabits, nextId, calls,
                 streakVars, finVars, restVars>>

MarkHabitIncomplete(habitId, date) ==
    /\ NoCallPending
    /\ LET r == markHabitIncomplete(habitEntries, dbHabitEntries, habitId, date)
       IN  /\ dbHabitEntries' = r.rows
           /\ habitEntries' = r.entries
    /\ UNCHANGED <<habits, dbHabits, nextId, calls,
                 streakVars, finVars, restVars>>

---------------------------------------------------------------------------
(* HabitsContext.tsx: markHabitComplete and markHabitIncomplete step by step. *)
(* Each await gives way to the other pending calls; a call works on the      *)
(* habits and habitEntries of the render that created it.                    *)

\* a new call takes the first free slot
FreeSlot(k) == calls[k].pc = "idle" /\ \A j \in 1..(k - 1) : calls[j].pc # "idle"

\* markHabitComplete up to its first await: the habit lookup and isCompleted
StartComplete(k, habitId, date, count) ==
    /\ FreeSlot(k)
    /\ FindHabit(habits, habitId) # <<>>
    /\ Len(dbHabitEntries) + Cardinality({j \in CallIds : calls[j].pc \in {"select", "write"}
                                            /\ calls[j].op = "complete"}) < MaxRows
    /\ calls' = [calls EXCEPT ![k] =
          [pc |-> "select", op |-> "complete", habitId |-> habitId,
           date |-> date, count |-> count,
           isCompleted |-> IsCompleted(count, Head(FindHabit(habits, habitId))),
           existing |-> FALSE, closure |-> habitEntries]]
    /\ UNCHANGED <<habits, habitEntries, dbHabits, dbHabitEntries, nextId,
                 streakVars, finVars, restVars>>

\* await db.getFirstAsync(SELECT ...)
StepSelect(k) ==
    /\ calls[k].pc = "select"
    /\ calls' = [calls EXCEPT ![k].pc = "write",
                              ![k].existing = dbSelectHabitEntry(
                                  dbHabitEntries, calls[k].habitId, calls[k].date)]
    /\ UNCHANGED <<habits, habitEntries, dbHabits, dbHabitEntries, nextId,
                 streakVars, finVars, restVars>>

\* markHabitIncomplete up to its await
StartIncomplete(k, habitId, date) ==
    /\ FreeSlot(k)
    /\ calls' = [calls EXCEPT ![k] =
          [pc |-> "write", op |-> "incomplete", habitId |-> habitId,
           date |-> date, count |-> 0, isCompleted |-> FALSE,
           existing |-> TRUE, closure |-> habitEntries]]
    /\ UNCHANGED <<habits, habitEntries, dbHabits, dbHabitEntries, nextId,
                 streakVars, finVars, restVars>>

\* await db.runAsync(UPDATE ... / INSERT ...)
StepWrite(k) ==
    /\ calls[k].pc = "write"
    /\ dbHabitEntries' =
          IF calls[k].op = "complete"
          THEN markCompleteWrite(dbHabitEntries, calls[k].existing, calls[k].habitId,
                                 calls[k].date, calls[k].isCompleted, calls[k].count)
          ELSE dbUpdateHabitEntry(dbHabitEntries, calls[k].habitId, calls[k].date,
                                  FALSE, 0)
    /\ calls' = [calls EXCEPT ![k].pc = "set"]
    /\ UNCHANGED <<habits, habitEntries, dbHabits, nextId,
                 streakVars, finVars, restVars>>

\* setHabitEntries(...) over the closure's habitEntries; the call returns
StepSet(k) ==
    /\ calls[k].pc = "set"
    /\ habitEntries' =
          IF calls[k].op = "complete"
          THEN markCompleteSet(calls[k].closure, calls[k].existing, calls[k].habitId,
                               calls[k].date, calls[k].isCompleted, calls[k].count)
          ELSE mapHabitEntries(calls[k].closure, calls[k].habitId, calls[k].date,
                               FALSE, 0)
    /\ calls' = [calls EXCEPT ![k] = IdleCall]
    /\ UNCHANGED <<habits, dbHabits, dbHabitEntries, nextId,
                 streakVars, finVars, restVars>>

---------------------------------------------------------------------------
(* contexts/FinanceContext.tsx: transactions, budgets and the spend cache *)

\* days in a month of the model's calendar
MonthLen == 30
\* transactions and budgets created in a run
MaxFinIds == 3
\* rows the transactions table holds at once
MaxTransactions == 2
\* rows the budgets table holds at once
MaxBudgets == 2

Categories == {"food", "fun"}
TxTypes == {"income", "expense"}
Periods == {"monthly", "weekly"}
TxAmounts == {1, 2}
BudgetAmounts == {2}

\* date-fns startOfMonth and endOfMonth, on day numbers
startOfMonth(d) == d - (d % MonthLen)
endOfMonth(d) == startOfMonth(d) + MonthLen - 1

\* weekStart.setDate(today.getDate() - today.getDay()): the Sunday on or before d
startOfCurrentWeek(d) == d - (d % 7)

\* periodStart and periodEnd of a budget period, relative to "now"
periodStart(period, now) ==
    IF period = "monthly" THEN startOfMonth(now) ELSE startOfCurrentWeek(now)
periodEnd(period, now) ==
    IF period = "monthly" THEN endOfMonth(now) ELSE startOfCurrentWeek(now) + 6

\* the days transactions are dated on: the last day of the month before, the
\* first day of this month (outside this week), and today
FinDates == {startOfMonth(Today) - 1, startOfMonth(Today), Today}

RECURSIVE SumAmounts(_)
SumAmounts(s) == IF s = <<>> THEN 0 ELSE Head(s).amount + SumAmounts(Tail(s))

\* SELECT SUM(amount) FROM transactions WHERE category = ? AND type = 'expense'
\* AND date BETWEEN ? AND ?   (spentResult?.total || 0)
dbSumSpent(rows, category, from, to) ==
    SumAmounts(SelectSeq(rows, LAMBDA t : /\ t.category = category
                                          /\ t.type = "expense"
                                          /\ t.date >= from /\ t.date <= to))

\* the spent the recompute finds for one budget
spentFor(budget, rows, now) ==
    dbSumSpent(rows, budget.category,
               periodStart(budget.period, now), periodEnd(budget.period, now))

\* updateBudgetSpending without its loop: the budgets go back as they came
updateBudgetSpendingSkipped(bs, rows, now) == bs

\* updateBudgetSpending's updatedBudgets: the budgets of its closure, each
\* with the spent found for it
updateBudgetSpending(bs, rows, now) ==
    [i \in DOMAIN bs |-> [bs[i] EXCEPT !.spent = spentFor(bs[i], rows, now)]]

\* the percentage from which updateBudgetSpending asks for an alert
AlertAt == 80

\* spentPercentage >= pct, where spentPercentage is
\* budget.amount > 0 ? (spent / budget.amount) * 100 : 0
reachesPercent(spent, amount, pct) == amount > 0 /\ spent * 100 >= pct * amount

\* the budgets updateBudgetSpending calls scheduleBudgetAlert for
budgetAlerts(updated) ==
    {updated[i].id : i \in {j \in DOMAIN updated :
        reachesPercent(updated[j].spent, updated[j].amount, AlertAt)}}

\* UPDATE budgets SET spent = ? WHERE id = ?, once for every budget of updated
dbUpdateSpent(rows, updated) ==
    [i \in DOMAIN rows |->
        LET same == SelectSeq(updated, LAMBDA b : b.id = rows[i].id) IN
        IF same = <<>> THEN rows[i]
        ELSE [rows[i] EXCEPT !.spent = same[Len(same)].spent]]

\* prevBudgets.map(b => b.id === budget.id ? { ...b, spent } : b)
setSpentOf(bs, id, spent) ==
    [i \in DOMAIN bs |-> IF bs[i].id = id THEN [bs[i] EXCEPT !.spent = spent] ELSE bs[i]]

NoBudget == [id |-> 0, category |-> "none", amount |-> 0, period |-> "none", spent |-> 0]
NoFin == [pc |-> "idle", op |-> "none", closure |-> <<>>, budget |-> NoBudget,
          ran |-> "none"]

\* no finance handler is between its call and its return
FinIdle == fin.pc \in {"idle", "returned"}

\* a handler that has written and goes on to await updateBudgetSpending()
Recomputing(op) ==
    [pc |-> "recompute", op |-> op, closure |-> budgets, budget |-> NoBudget,
     ran |-> "none"]

Returned(op) ==
    [pc |-> "returned", op |-> op, closure |-> <<>>, budget |-> NoBudget,
     ran |-> "none"]

\* the provider mounts (the app starts): loadFinanceData runs with the
\* budgets of the first render, which are []
Mount ==
    /\ FinIdle
    /\ transactions' = SortDesc(dbTransactions)
    /\ budgets' = dbBudgets
    /\ fin' = [Recomputing("loadFinanceData") EXCEPT !.closure = <<>>]
    /\ alerted' = {}
    /\ UNCHANGED <<dbTransactions, dbBudgets, nextFinId, streakVars, habitVars, restVars>>

\* addTransaction up to its await updateBudgetSpending()
AddTransaction(amount, category, type, date) ==
    /\ FinIdle
    /\ nextFinId <= MaxFinIds
    /\ Len(dbTransactions) < MaxTransactions
    /\ LET t == [id |-> nextFinId, amount |-> amount, category |-> category,
                 type |-> type, date |-> date]
       IN  /\ dbTransactions' = Append(dbTransactions, t)
           /\ transactions' = <<t>> \o transactions
    /\ nextFinId' = nextFinId + 1
    /\ fin' = Recomputing("addTransaction")
    /\ alerted' = {}
    /\ UNCHANGED <<budgets, dbBudgets, streakVars, habitVars, restVars>>

\* transactions.map(t => t.id === id ? { ...t, ...updates } : t), also the UPDATE
setTransaction(ts, id, amount, category, type, date) ==
    [i \in DOMAIN ts |->
        IF ts[i].id = id
        THEN [id |-> id, amount |-> amount, category |-> category,
              type |-> type, date |-> date]
        ELSE ts[i]]

\* updateTransaction up to its await updateBudgetSpending()
UpdateTransaction(id, amount, category, type, date) ==
    /\ FinIdle
    /\ \E i \in DOMAIN transactions : transactions[i].id = id
    /\ dbTransactions' = setTransaction(dbTransactions, id, amount, category, type, date)
    /\ transactions' = setTransaction(transactions, id, amount, category, type, date)
    /\ fin' = Recomputing("updateTransaction")
    /\ alerted' = {}
    /\ UNCHANGED <<budgets, dbBudgets, nextFinId, streakVars, habitVars, restVars>>

\* deleteTransaction up to its await updateBudgetSpending()
DeleteTransaction(id) ==
    /\ FinIdle
    /\ \E i \in DOMAIN transactions : transactions[i].id = id
    /\ dbTransactions' = SelectSeq(dbTransactions, LAMBDA t : t.id # id)
    /\ transactions' = SelectSeq(transactions, LAMBDA t : t.id # id)
    /\ fin' = Recomputing("deleteTransaction")
    /\ alerted' = {}
    /\ UNCHANGED <<budgets, dbBudgets, nextFinId, streakVars, habitVars, restVars>>

\* addBudget up to its await updateBudgetSpendingForBudget(newBudget)
AddBudget(category, amount, period) ==
    /\ FinIdle
    /\ nextFinId <= MaxFinIds
    /\ Len(dbBudgets) < MaxBudgets
    /\ LET newBudget == [id |-> nextFinId, category |-> category, amount |-> amount,
                         period |-> period, spent |-> 0]
       IN  /\ dbBudgets' = Append(dbBudgets, newBudget)
           /\ budgets' = Append(budgets, newBudget)
           /\ fin' = [Recomputing("addBudget") EXCEPT !.budget = newBudget]
    /\ nextFinId' = nextFinId + 1
    /\ alerted' = {}
    /\ UNCHANGED <<transactions, dbTransactions, streakVars, habitVars, restVars>>

\* budgets.map(b => b.id === id ? { ...b, ...updates } : b), also the UPDATE
setBudget(bs, id, category, amount, period) ==
    [i \in DOMAIN bs |->
        IF bs[i].id = id
        THEN [bs[i] EXCEPT !.category = category, !.amount = amount,
                           !.period = period]
        ELSE bs[i]]

\* updateBudget, whole: it returns after its setBudgets
UpdateBudget(id, category, amount, period) ==
    /\ FinIdle
    /\ \E i \in DOMAIN budgets : budgets[i].id = id
    /\ dbBudgets' = setBudget(dbBudgets, id, category, amount, period)
    /\ budgets' = setBudget(budgets, id, category, amount, period)
    /\ fin' = Returned("updateBudget")
    /\ alerted' = {}
    /\ UNCHANGED <<transactions, dbTransactions, nextFinId, streakVars, habitVars, restVars>>

\* deleteBudget, whole
DeleteBudget(id) ==
    /\ FinIdle
    /\ \E i \in DOMAIN budgets : budgets[i].id = id
    /\ dbBudgets' = SelectSeq(dbBudgets, LAMBDA b : b.id # id)
    /\ budgets' = SelectSeq(budgets, LAMBDA b : b.id # id)
    /\ fin' = Returned("deleteBudget")
    /\ alerted' = {}
    /\ UNCHANGED <<transactions, dbTransactions, nextFinId, streakVars, habitVars, restVars>>

\* await updateBudgetSpending(): one query and one UPDATE for every budget of
\* the closure, then setBudgets(updatedBudgets); the handler returns
RecomputeAll ==
    /\ fin.pc = "recompute"
    /\ fin.op # "addBudget"
    /\ LET updatedBudgets == updateBudgetSpending(fin.closure, dbTransactions, Today)
       IN  /\ dbBudgets' = dbUpdateSpent(dbBudgets, updatedBudgets)
           /\ budgets' = updatedBudgets
           /\ alerted' = budgetAlerts(updatedBudgets)
    /\ fin' = [Returned(fin.op) EXCEPT !.ran = "all"]
    /\ UNCHANGED <<transactions, dbTransactions, nextFinId, streakVars, habitVars, restVars>>

\* await updateBudgetSpendingForBudget(newBudget); addBudget returns
RecomputeOne ==
    /\ fin.pc = "recompute"
    /\ fin.op = "addBudget"
    /\ LET spent == spentFor(fin.budget, dbTransactions, Today)
       IN  /\ dbBudgets' = setSpentOf(dbBudgets, fin.budget.id, spent)
           /\ budgets' = setSpentOf(budgets, fin.budget.id, spent)
    /\ fin' = [Returned(fin.op) EXCEPT !.ran = "one", !.budget = fin.budget]
    /\ UNCHANGED <<alerted, transactions, dbTransactions, nextFinId, streakVars,
                 habitVars, restVars>>

---------------------------------------------------------------------------
(* contexts/FinanceContext.tsx: the analytics functions, and BudgetsScreen's   *)
(* getBudgetProgress.  They compare the Date of an in-memory transaction with *)
(* Dates derived from new Date(), so here a date is an instant.               *)

\* format(date, 'yyyy-MM-dd'): the local calendar day of an instant
formatDay(instant) == instant \div TicksPerDay

\* new Date('yyyy-MM-dd'): midnight UTC of that day, which on the local time
\* axis lies tz steps after local midnight (before it, west of Greenwich)
parseDay(day, tz) == day * TicksPerDay + tz

\* startOfMonth(new Date()) and endOfMonth(new Date()) as instants: the first
\* and the last instant of the month
startOfMonthAt(now) == startOfMonth(formatDay(now)) * TicksPerDay
endOfMonthAt(now) == (endOfMonth(formatDay(now)) + 1) * TicksPerDay - 1

\* weekStart = new Date(today); weekStart.setDate(today.getDate() - today.getDay()):
\* the Sunday on or before now, at now's time of day
weekStartAt(now) == now - (formatDay(now) % 7) * TicksPerDay
\* weekEnd.setDate(weekStart.getDate() + 6)
weekEndAt(now) == weekStartAt(now) + 6 * TicksPerDay

\* t.date >= from && t.date <= to
DatedWithin(t, from, to) == t.date >= from /\ t.date <= to

\* getMonthlySpending(category)
getMonthlySpending(bs, ts, category, now) ==
    LET found == SelectSeq(bs, LAMBDA b : b.category = category)
        weekly == found # <<>> /\ Head(found).period = "weekly"
        periodStartAt == IF weekly THEN weekStartAt(now) ELSE startOfMonthAt(now)
        periodEndAt == IF weekly THEN weekEndAt(now) ELSE endOfMonthAt(now)
    IN  SumAmounts(SelectSeq(ts, LAMBDA t :
            /\ t.type = "expense" /\ t.category = category
            /\ DatedWithin(t, periodStartAt, periodEndAt)))

\* getBudgetProgress without Math.min and Math.max
getBudgetProgressUnclamped(bs, ts, budget, now) ==
    LET spent == getMonthlySpending(bs, ts, budget.category, now)
    IN  [spent |-> spent,
         percentage |-> IF budget.amount > 0
                        THEN [num |-> spent * 100, den |-> budget.amount]
                        ELSE [num |-> 0, den |-> 1],
         remaining |-> budget.amount - spent]

\* BudgetsScreen getBudgetProgress(budget); percentage is the fraction num / den
getBudgetProgress(bs, ts, budget, now) ==
    LET spent == getMonthlySpending(bs, ts, budget.category, now)
        percentage == IF budget.amount > 0
                      THEN [num |-> spent * 100, den |-> budget.amount]
                      ELSE [num |-> 0, den |-> 1]
    IN  [spent |-> spent,
         percentage |-> IF percentage.num <= 100 * percentage.den
                        THEN percentage ELSE [num |-> 100, den |-> 1],
         remaining |-> Max(budget.amount - spent, 0)]

\* getMonthlyBalance taking every transaction, whatever its date
getMonthlyBalanceAllTime(ts, now) ==
    LET income == SumAmounts(SelectSeq(ts, LAMBDA t : t.type = "income"))
        expenses == SumAmounts(SelectSeq(ts, LAMBDA t : t.type = "expense"))
    IN  [income |-> income, expenses |-> expenses, balance |-> income - expenses]

\* getMonthlyBalance()
getMonthlyBalance(ts, now) ==
    LET monthTransactions == SelectSeq(ts, LAMBDA t :
            DatedWithin(t, startOfMonthAt(now), endOfMonthAt(now)))
        income == SumAmounts(SelectSeq(monthTransactions, LAMBDA t : t.type = "income"))
        expenses == SumAmounts(SelectSeq(monthTransactions, LAMBDA t : t.type = "expense"))
    IN  [income |-> income, expenses |-> expenses, balance |-> income - expenses]

\* getCategorySpending(period): the reduce builds a key for every category
\* that has a transaction in periodTransactions.  For 'week' start and end are
\* both new Date().
getCategorySpending(ts, period, now) ==
    LET start == IF period = "month" THEN startOfMonthAt(now) ELSE now
        end == IF period = "month" THEN endOfMonthAt(now) ELSE now
        periodTransactions == SelectSeq(ts, LAMBDA t :
            t.type = "expense" /\ DatedWithin(t, start, end))
        keys == {periodTransactions[i].category : i \in DOMAIN periodTransactions}
    IN  [c \in keys |->
            SumAmounts(SelectSeq(periodTransactions, LAMBDA t : t.category = c))]

\* the instants the transactions of a render are dated at: the last instant
\* before this month, the first of the month, Sunday midnight of this week,
\* today's midnight and today's last instant, the last instant of Saturday
\* and of the month, and the first instant of next month
ViewInstants ==
    {startOfMonth(Today) * TicksPerDay - 1,
     startOfMonth(Today) * TicksPerDay,
     startOfCurrentWeek(Today) * TicksPerDay,
     Today * TicksPerDay,
     (Today + 1) * TicksPerDay - 1,
     (startOfCurrentWeek(Today) + 7) * TicksPerDay - 1,
     (endOfMonth(Today) + 1) * TicksPerDay - 1,
     (endOfMonth(Today) + 1) * TicksPerDay}

\* the instants of today at which a screen renders
NowTimes == {Today * TicksPerDay + step : step \in 0..(TicksPerDay - 1)}

\* where midnight UTC falls on the local time axis
TzShifts == {-1, 0, 1}

\* in-memory transactions as the form leaves them: transaction i has amount i
ViewTransactions ==
    UNION {{[i \in 1..n |-> [id |-> i, amount |-> i, category |-> f[i].category,
                             type |-> f[i].type, date |-> f[i].date]] :
              f \in [1..n -> [category : Categories, type : TxTypes,
                              date : ViewInstants]]} : n \in 0..MaxTransactions}

\* the rows addTransaction wrote for them: date is format(date, 'yyyy-MM-dd')
rowsOf(ts) == [i \in DOMAIN ts |-> [ts[i] EXCEPT !.date = formatDay(ts[i].date)]]

\* budgets whose cached spent is what the recompute finds over rows
ViewBudgets(rows) ==
    UNION {{[i \in 1..n |-> [id |-> MaxTransactions + i, category |-> f[i].category,
                             amount |-> f[i].amount, period |-> f[i].period,
                             spent |-> spentFor(f[i], rows, Today)]] :
              f \in [1..n -> [category : Categories, amount : BudgetAmounts,
                              period : Periods]]} : n \in 0..MaxBudgets}

\* loadFinanceData's transactions: SELECT * FROM transactions ORDER BY date
\* DESC, each row's date through new Date(t.date)
LoadTransactions(tz) ==
    /\ fin.pc = "idle"
    /\ ~shown.rendered
    /\ transactions' = SortDesc([i \in DOMAIN dbTransactions |->
           [dbTransactions[i] EXCEPT !.date = parseDay(dbTransactions[i].date, tz)]])
    /\ fin' = Returned("loadFinanceData")
    /\ UNCHANGED <<budgets, dbTransactions, dbBudgets, nextFinId, alerted, nowTime,
                 shown, goalVars, rate, streakVars, habitVars,
                 moreVars>>

\* a render of the finance screens: BudgetsScreen's progress of every budget,
\* the dashboard's balance and the analytics screen's category spending
Render ==
    /\ ~shown.rendered
    /\ shown' = [rendered |-> TRUE,
                 progress |-> [i \in DOMAIN budgets |->
                     getBudgetProgress(budgets, transactions, budgets[i], nowTime)],
                 balance |-> getMonthlyBalance(transactions, nowTime),
                 month |-> getCategorySpending(transactions, "month", nowTime),
                 week |-> getCategorySpending(transactions, "week", nowTime)]
    /\ UNCHANGED <<nowTime, finVars, goalVars, rate, streakVars, habitVars, moreVars>>

---------------------------------------------------------------------------
(* contexts/FinanceContext.tsx: goals and addGoalContribution; GoalsScreen's   *)
(* contribution form                                                          *)

\* goals created in a run
MaxGoals == 2
\* largest amount typed into the contribution form, and largest first amount
MaxDelta == 3
\* a goal's currentAmount stays within -MaxBalance .. MaxBalance
MaxBalance == 4

GoalIds == 1..MaxGoals
GoalTargets == {MaxBalance}
Deltas == (-MaxDelta)..MaxDelta
BaseAmounts == 0..MaxDelta
ContributionTypes == {"deposit", "withdrawal"}

\* goals.find(g => g.id === goalId): the goals with that id, in list order
FindGoal(gs, goalId) == SelectSeq(gs, LAMBDA g : g.id = goalId)

\* goals.map(g => g.id === goalId ? { ...g, currentAmount } : g), also the UPDATE
setCurrentAmount(gs, goalId, newCurrentAmount) ==
    [i \in DOMAIN gs |->
        IF gs[i].id = goalId THEN [gs[i] EXCEPT !.currentAmount = newCurrentAmount]
        ELSE gs[i]]

\* addGoalContribution that never stores an amount below 0
addGoalContributionClamped(gs, rows, goalId, amount) ==
    LET found == FindGoal(gs, goalId) IN
    IF found = <<>>
    THEN [thrown |-> TRUE, rows |-> rows, goals |-> gs]
    ELSE LET newCurrentAmount == Max(Head(found).currentAmount + amount, 0)
         IN  [thrown |-> FALSE,
              rows |-> setCurrentAmount(rows, goalId, newCurrentAmount),
              goals |-> setCurrentAmount(gs, goalId, newCurrentAmount)]

\* addGoalContribution(goalId, amount) run from start to end: the table and
\* the state it leaves ("thrown" when the goal is not found)
addGoalContribution(gs, rows, goalId, amount) ==
    LET found == FindGoal(gs, goalId) IN
    IF found = <<>>
    THEN [thrown |-> TRUE, rows |-> rows, goals |-> gs]
    ELSE LET newCurrentAmount == Head(found).currentAmount + amount
         IN  [thrown |-> FALSE,
              rows |-> setCurrentAmount(rows, goalId, newCurrentAmount),
              goals |-> setCurrentAmount(gs, goalId, newCurrentAmount)]

\* submitContribution without the withdrawal check
submitContributionUnchecked(gs, rows, selected, type, baseAmount) ==
    IF selected = NoGoal \/ baseAmount <= 0
    THEN [invoked |-> FALSE, rows |-> rows, goals |-> gs, selected |-> selected]
    ELSE LET finalAmount == IF type = "withdrawal" THEN -baseAmount ELSE baseAmount
             r == addGoalContribution(gs, rows, selected.id, finalAmount)
         IN  [invoked |-> TRUE, rows |-> r.rows, goals |-> r.goals,
              selected |-> IF r.thrown THEN selected ELSE NoGoal]

\* GoalsScreen submitContribution with the form holding type and baseAmount:
\* whether addGoalContribution was invoked, and what is left
submitContribution(gs, rows, selected, type, baseAmount) ==
    IF selected = NoGoal \/ baseAmount <= 0
    THEN [invoked |-> FALSE, rows |-> rows, goals |-> gs, selected |-> selected]
    ELSE LET finalAmount == IF type = "withdrawal" THEN -baseAmount ELSE baseAmount IN
         IF type = "withdrawal" /\ selected.currentAmount + finalAmount < 0
         THEN [invoked |-> FALSE, rows |-> rows, goals |-> gs, selected |-> selected]
         ELSE LET r == addGoalContribution(gs, rows, selected.id, finalAmount)
              IN  [invoked |-> TRUE, rows |-> r.rows, goals |-> r.goals,
                   selected |-> IF r.thrown THEN selected ELSE NoGoal]

\* the ledger after delta was applied to the goal
credit(l, goalId, delta) == [l EXCEPT ![goalId] = l[goalId] + delta]

\* within the balance bound
InBalance(amount) == amount >= -MaxBalance /\ amount <= MaxBalance

\* addGoal: INSERT INTO goals, then setGoals([...goals, newGoal])
AddGoal(targetAmount, currentAmount) ==
    /\ nextGoalId <= MaxGoals
    /\ LET newGoal == [id |-> nextGoalId, targetAmount |-> targetAmount,
                       currentAmount |-> currentAmount]
       IN  /\ dbGoals' = Append(dbGoals, newGoal)
           /\ goals' = Append(goals, newGoal)
    /\ ledger' = Append(ledger, currentAmount)
    /\ nextGoalId' = nextGoalId + 1
    /\ UNCHANGED <<selectedGoal, viewVars, rate, streakVars, habitVars, finVars, moreVars>>

\* deleteGoal: DELETE FROM goals, then setGoals(goals.filter(...))
DeleteGoal(id) ==
    /\ FindGoal(goals, id) # <<>>
    /\ dbGoals' = SelectSeq(dbGoals, LAMBDA g : g.id # id)
    /\ goals' = SelectSeq(goals, LAMBDA g : g.id # id)
    /\ UNCHANGED <<nextGoalId, selectedGoal, ledger, viewVars, rate, streakVars,
                 habitVars, finVars,
                 moreVars>>

\* addGoalContribution called on the context, whole
AddGoalContribution(goalId, amount) ==
    /\ LET r == addGoalContribution(goals, dbGoals, goalId, amount)
       IN  /\ \A i \in DOMAIN r.goals : InBalance(r.goals[i].currentAmount)
           /\ dbGoals' = r.rows
           /\ goals' = r.goals
           /\ ledger' = IF r.thrown THEN ledger ELSE credit(ledger, goalId, amount)
    /\ UNCHANGED <<nextGoalId, selectedGoal, viewVars, rate, streakVars, habitVars,
                 finVars,
                 moreVars>>

\* handleContribution(goal): the form opens on a goal of the list
HandleContribution(goalId) ==
    /\ FindGoal(goals, goalId) # <<>>
    /\ selectedGoal' = Head(FindGoal(goals, goalId))
    /\ UNCHANGED <<goals, dbGoals, nextGoalId, ledger, viewVars, rate, streakVars,
                 habitVars, finVars,
                 moreVars>>

\* submitContribution, whole
SubmitContribution(type, baseAmount) ==
    /\ selectedGoal # NoGoal
    /\ LET r == submitContribution(goals, dbGoals, selectedGoal, type, baseAmount)
           finalAmount == IF type = "withdrawal" THEN -baseAmount ELSE baseAmount
       IN  /\ \A i \in DOMAIN r.goals : InBalance(r.goals[i].currentAmount)
           /\ dbGoals' = r.rows
           /\ goals' = r.goals
           /\ selectedGoal' = r.selected
           /\ ledger' = IF r.invoked /\ r.selected = NoGoal
                        THEN credit(ledger, selectedGoal.id, finalAmount)
                        ELSE ledger
    /\ UNCHANGED <<nextGoalId, viewVars, rate, streakVars, habitVars, finVars, moreVars>>

\* FinanceContext.tsx: addGoalContribution step by step.  Each await gives way
\* to the other pending call; a call works on the goals of the render that
\* created it.

\* the deltas of the overlapping calls: deposits, so that a run is bounded
Deposits == {1, 2}

\* a new call takes the first free slot
FreeContribution(k) ==
    contribs[k].pc = "idle" /\ \A j \in 1..(k - 1) : contribs[j].pc # "idle"

\* addGoalContribution up to its await db.runAsync: the goal is found in the
\* goals of this render and newCurrentAmount is computed from it
StartContribution(k, goalId, amount) ==
    /\ FreeContribution(k)
    /\ FindGoal(goals, goalId) # <<>>
    /\ LET newCurrentAmount == Head(FindGoal(goals, goalId)).currentAmount + amount
       IN  /\ InBalance(newCurrentAmount)
           /\ InBalance(ledger[goalId] + amount)
           /\ contribs' = [contribs EXCEPT ![k] =
                  [pc |-> "write", goalId |-> goalId, amount |-> amount,
                   newCurrentAmount |-> newCurrentAmount, closure |-> goals]]
    /\ ledger' = credit(ledger, goalId, amount)
    /\ UNCHANGED <<goals, dbGoals, nextGoalId, selectedGoal, viewVars, rate,
                 streakVars, habitVars, finVars, streakAgain, healthVars, calcVars,
                 settingsVars>>

\* UPDATE goals SET current_amount = ? WHERE id = ?
StepContributionWrite(k) ==
    /\ contribs[k].pc = "write"
    /\ dbGoals' = setCurrentAmount(dbGoals, contribs[k].goalId,
                                   contribs[k].newCurrentAmount)
    /\ contribs' = [contribs EXCEPT ![k].pc = "set"]
    /\ UNCHANGED <<goals, nextGoalId, selectedGoal, ledger, viewVars, rate,
                 streakVars, habitVars, finVars, streakAgain, healthVars, calcVars,
                 settingsVars>>

\* setGoals(goals.map(...)) over the goals of the call's render; the call returns
StepContributionSet(k) ==
    /\ contribs[k].pc = "set"
    /\ goals' = setCurrentAmount(contribs[k].closure, contribs[k].goalId,
                                 contribs[k].newCurrentAmount)
    /\ contribs' = [contribs EXCEPT ![k] = IdleContribution]
    /\ UNCHANGED <<dbGoals, nextGoalId, selectedGoal, ledger, viewVars, rate,
                 streakVars, habitVars, finVars, streakAgain, healthVars, calcVars,
                 settingsVars>>

---------------------------------------------------------------------------
(* contexts/HealthContext.tsx: the weight entry store, getLatestWeight and    *)
(* getWeightTrend.  Weights are in tenths of a kilogram.                      *)

\* weight entries created in a run
MaxWeightEntries == 3
\* weight entries are dated Today - WeightRange .. Today
WeightRange == 2

WeightIds == 1..MaxWeightEntries
WeightDays == (Today - WeightRange)..Today
Weights == {700, 701, 710}
TrendWindows == {1, 2, 7}

NoWeight == [id |-> 0, weight |-> 0, date |-> -1]

\* weightEntries.map(w => w.id === id ? { ...w, ...updates } : w), also the UPDATE
setWeightEntry(ws, id, weight, date) ==
    [i \in DOMAIN ws |->
        IF ws[i].id = id THEN [ws[i] EXCEPT !.weight = weight, !.date = date] ELSE ws[i]]

\* loadHealthData: SELECT * FROM weight_entries ORDER BY date DESC
LoadHealthData ==
    /\ weightEntries' = SortDesc(dbWeightEntries)
    /\ UNCHANGED <<dbWeightEntries, nextWeightId, streakVars, habitVars, finVars,
                 viewVars, goalVars, rate, streakAgain, calcVars, contribs,
                 settingsVars>>

\* addWeightEntry: INSERT, then setWeightEntries([newEntry, ...weightEntries])
AddWeightEntry(weight, date) ==
    /\ nextWeightId <= MaxWeightEntries
    /\ LET newEntry == [id |-> nextWeightId, weight |-> weight, date |-> date]
       IN  /\ dbWeightEntries' = Append(dbWeightEntries, newEntry)
           /\ weightEntries' = <<newEntry>> \o weightEntries
    /\ nextWeightId' = nextWeightId + 1
    /\ UNCHANGED <<streakVars, habitVars, finVars, viewVars, goalVars, rate,
                 streakAgain, calcVars, contribs, settingsVars>>

\* updateWeightEntry(id, { weight, date }): UPDATE, then weightEntries.map(...)
UpdateWeightEntry(id, weight, date) ==
    /\ \E i \in DOMAIN weightEntries : weightEntries[i].id = id
    /\ dbWeightEntries' = setWeightEntry(dbWeightEntries, id, weight, date)
    /\ weightEntries' = setWeightEntry(weightEntries, id, weight, date)
    /\ UNCHANGED <<nextWeightId, streakVars, habitVars, finVars, viewVars, goalVars,
                 rate, streakAgain, calcVars, contribs, settingsVars>>

\* deleteWeightEntry: DELETE, then weightEntries.filter(w => w.id !== id)
DeleteWeightEntry(id) ==
    /\ \E i \in DOMAIN weightEntries : weightEntries[i].id = id
    /\ dbWeightEntries' = SelectSeq(dbWeightEntries, LAMBDA w : w.id # id)
    /\ weightEntries' = SelectSeq(weightEntries, LAMBDA w : w.id # id)
    /\ UNCHANGED <<nextWeightId, streakVars, habitVars, finVars, viewVars, goalVars,
                 rate, streakAgain, calcVars, contribs, settingsVars>>

\* getLatestWeight: weightEntries[0], or null
getLatestWeight(ws) == IF Len(ws) > 0 THEN ws[1] ELSE NoWeight

Abs(x) == IF x < 0 THEN -x ELSE x

\* getWeightTrend(days); Math.abs(change) < 0.1 is under one tenth
getWeightTrend(ws, days, now) ==
    IF Len(ws) < 2 THEN [trend |-> "stable", change |-> 0]
    ELSE LET recentEntries == SelectSeq(ws, LAMBDA e : AfterCutoff(e, now, days)) IN
         IF Len(recentEntries) < 2 THEN [trend |-> "stable", change |-> 0]
         ELSE LET latestWeight == recentEntries[1].weight
                  oldestWeight == recentEntries[Len(recentEntries)].weight
                  change == latestWeight - oldestWeight
              IN  [trend |-> IF Abs(change) < 1 THEN "stable"
                             ELSE IF change > 0 THEN "up" ELSE "down",
                   change |-> Abs(change)]

---------------------------------------------------------------------------
(* services/calculations.ts: getBMICategory.  A bmi is in hundredths.         *)

\* the bmi values handed to getBMICategory: 17.00 .. 31.00
BmiValues == 1700..3100

\* getBMICategory with each boundary in the lower category
getBMICategoryInclusive(b) ==
    IF b <= 1850 THEN "Underweight"
    ELSE IF b <= 2500 THEN "Normal"
    ELSE IF b <= 3000 THEN "Overweight"
    ELSE "Obese"

\* getBMICategory(bmi): bmi < 18.5, bmi < 25, bmi < 30, else
getBMICategory(b) ==
    IF b < 1850 THEN "Underweight"
    ELSE IF b < 2500 THEN "Normal"
    ELSE IF b < 3000 THEN "Overweight"
    ELSE "Obese"

\* getBMICategory applied to the bmi
GetBMICategory ==
    /\ bmiCategory = NoCategory
    /\ bmiCategory' = getBMICategory(bmi)
    /\ UNCHANGED <<userProfile, measurements, bodyFat, bmi, streakVars, habitVars,
                 finVars, viewVars, goalVars, rate, streakAgain, healthVars,
                 contribs, settingsVars>>

---------------------------------------------------------------------------
(* services/calculations.ts: calculateBodyFat, and HealthContext.tsx:         *)
(* calculateBodyFatFromMeasurements.  Lengths are whole centimetres, 0 when    *)
(* the measurement is missing; a body fat percentage is in tenths.            *)

\* Math.log10(n) * 10000, rounded, for n = 1 .. 300
Log10e4 ==
   <<
      0, 3010, 4771, 6021, 6990, 7782, 8451, 9031, 9542, 10000, 10414, 10792,
      11139, 11461, 11761, 12041, 12304, 12553, 12788, 13010, 13222, 13424, 13617, 13802,
      13979, 14150, 14314, 14472, 14624, 14771, 14914, 15051, 15185, 15315, 15441, 15563,
      15682, 15798, 15911, 16021, 16128, 16232, 16335, 16435, 16532, 16628, 16721, 16812,
      16902, 16990, 17076, 17160, 17243, 17324, 17404, 17482, 17559, 17634, 17709, 17782,
      17853, 17924, 17993, 18062, 18129, 18195, 18261, 18325, 18388, 18451, 18513, 18573,
      18633, 18692, 18751, 18808, 18865, 18921, 18976, 19031, 19085, 19138, 19191, 19243,
      19294, 19345, 19395, 19445, 19494, 19542, 19590, 19638, 19685, 19731, 19777, 19823,
      19868, 19912, 19956, 20000, 20043, 20086, 20128, 20170, 20212, 20253, 20294, 20334,
      20374, 20414, 20453, 20492, 20531, 20569, 20607, 20645, 20682, 20719, 20755, 20792,
      20828, 20864, 20899, 20934, 20969, 21004, 21038, 21072, 21106, 21139, 21173, 21206,
      21239, 21271, 21303, 21335, 21367, 21399, 21430, 21461, 21492, 21523, 21553, 21584,
      21614, 21644, 21673, 21703, 21732, 21761, 21790, 21818, 21847, 21875, 21903, 21931,
      21959, 21987, 22014, 22041, 22068, 22095, 22122, 22148, 22175, 22201, 22227, 22253,
      22279, 22304, 22330, 22355, 22380, 22405, 22430, 22455, 22480, 22504, 22529, 22553,
      22577, 22601, 22625, 22648, 22672, 22695, 22718, 22742, 22765, 22788, 22810, 22833,
      22856, 22878, 22900, 22923, 22945, 22967, 22989, 23010, 23032, 23054, 23075, 23096,
      23118, 23139, 23160, 23181, 23201, 23222, 23243, 23263, 23284, 23304, 23324, 23345,
      23365, 23385, 23404, 23424, 23444, 23464, 23483, 23502, 23522, 23541, 23560, 23579,
      23598, 23617, 23636, 23655, 23674, 23692, 23711, 23729, 23747, 23766, 23784, 23802,
      23820, 23838, 23856, 23874, 23892, 23909, 23927, 23945, 23962, 23979, 23997, 24014,
      24031, 24048, 24065, 24082, 24099, 24116, 24133, 24150, 24166, 24183, 24200, 24216,
      24232, 24249, 24265, 24281, 24298, 24314, 24330, 24346, 24362, 24378, 24393, 24409,
      24425, 24440, 24456, 24472, 24487, 24502, 24518, 24533, 24548, 24564, 24579, 24594,
      24609, 24624, 24639, 24654, 24669, 24683, 24698, 24713, 24728, 24742, 24757, 24771
   >>

Genders == {"none", "male", "female"}
Heights == {0, 160, 180}
Waists == {0, 60, 80, 100, 130, 150}
Necks == {0, 35, 45, 80}
Hips == {0, 90, 110}

NaN == [kind |-> "NaN", value |-> 0]
Number(v) == [kind |-> "number", value |-> v]

\* 495 / denominator - 450, the denominator in 1e-5: a zero denominator gives
\* Infinity, here a value above every limit
navy(denominator) ==
    IF denominator = 0 THEN Number(1000000)
    ELSE Number((495000000 \div denominator) - 4500)

\* calculateBodyFat(gender, waist, neck, height, hip, 'metric')
calculateBodyFat(gender, waist, neck, height, hip) ==
    IF gender = "male"
    THEN IF waist - neck < 0 \/ height < 0 THEN NaN
         ELSE IF waist - neck = 0 \/ height = 0 THEN Number(-4500)
         ELSE navy(103240 - ((19077 * Log10e4[waist - neck]) \div 10000)
                          + ((15456 * Log10e4[height]) \div 10000))
    ELSE IF hip = 0 THEN Number(0)
         ELSE IF waist + hip - neck < 0 \/ height < 0 THEN NaN
         ELSE IF waist + hip - neck = 0 \/ height = 0 THEN Number(-4500)
         ELSE navy(129579 - ((35004 * Log10e4[waist + hip - neck]) \div 10000)
                          + ((22100 * Log10e4[height]) \div 10000))

Unavailable == [called |-> TRUE, thrown |-> FALSE, available |-> FALSE, value |-> 0]

\* calculateBodyFatFromMeasurements returning whatever the formula gives
calculateBodyFatFromMeasurementsAnyValue(profile, m) ==
    IF profile.gender = "none" THEN Unavailable
    ELSE IF m.height = 0 \/ m.waist = 0 \/ m.neck = 0 THEN Unavailable
    ELSE IF profile.gender = "female" /\ m.hip = 0 THEN Unavailable
    ELSE LET r == calculateBodyFat(profile.gender, m.waist, m.neck, m.height, m.hip)
         IN  IF r.kind = "NaN" THEN Unavailable
             ELSE [called |-> TRUE, thrown |-> FALSE, available |-> TRUE,
                   value |-> r.value]

\* calculateBodyFatFromMeasurements(measurements): null is "not available"
calculateBodyFatFromMeasurements(profile, m) ==
    IF profile.gender = "none" THEN Unavailable
    ELSE IF m.height = 0 \/ m.waist = 0 \/ m.neck = 0 THEN Unavailable
    ELSE IF profile.gender = "female" /\ m.hip = 0 THEN Unavailable
    ELSE LET r == calculateBodyFat(profile.gender, m.waist, m.neck, m.height, m.hip)
         IN  IF r.kind = "NaN" \/ r.value < 30 \/ r.value > 500 THEN Unavailable
             ELSE [called |-> TRUE, thrown |-> FALSE, available |-> TRUE,
                   value |-> r.value]

\* calculateBodyFatFromMeasurements applied to the measurements
CalculateBodyFatFromMeasurements ==
    /\ bodyFat = NoBodyFat
    /\ bodyFat' = calculateBodyFatFromMeasurements(userProfile, measurements)
    /\ UNCHANGED <<userProfile, measurements, bmi, bmiCategory, streakVars,
                 habitVars, finVars, viewVars, goalVars, rate, streakAgain,
                 healthVars, contribs, settingsVars>>

---------------------------------------------------------------------------
(* SettingsContext: updateSettings, step by step *)

\* let retries = 3
Retries == 3
\* database writes a call is followed through
AttemptCap == 5

Currencies == {"USD", "EUR", "IDR"}
Themes == {"light", "dark"}

\* retries that never goes down
retriesKept(retries) == retries

\* retries--
retriesAfterFailure(retries) == retries - 1

\* updateSettings up to its first await: setSettings(updatedSettings), then
\* return when the database is not ready or cannot be got
UpdateSettings(currency, theme, ready) ==
    /\ upd.pc \in {"idle", "returned"}
    /\ LET updatedSettings == [settings EXCEPT !.currency = currency, !.theme = theme]
       IN  /\ settings' = updatedSettings
           /\ upd' = [pc |-> IF ready THEN "write" ELSE "returned", ready |-> ready,
                      retries |-> IF ready THEN Retries ELSE 0, attempts |-> 0,
                      written |-> FALSE, thrown |-> FALSE,
                      updatedSettings |-> updatedSettings]
    /\ UNCHANGED <<dbSettings, streakVars, habitVars, finVars, viewVars, goalVars,
                 rate, streakAgain, healthVars, calcVars, contribs>>

\* one pass of the while loop: await db.runAsync(UPDATE settings ...), which
\* succeeds (break) or throws (retries--)
AttemptWrite(ok) ==
    /\ upd.pc = "write"
    /\ upd.attempts < AttemptCap
    /\ IF ok
       THEN /\ dbSettings' = upd.updatedSettings
            /\ upd' = [upd EXCEPT !.pc = "storage", !.attempts = @ + 1,
                                  !.written = TRUE]
       ELSE /\ dbSettings' = dbSettings
            /\ upd' = [upd EXCEPT !.attempts = @ + 1,
                                  !.retries = retriesAfterFailure(@),
                                  !.pc = IF retriesAfterFailure(upd.retries) = 0
                                         THEN "storage" ELSE "wait"]
    /\ UNCHANGED <<settings, streakVars, habitVars, finVars, viewVars, goalVars, rate,
                 streakAgain, healthVars, calcVars, contribs>>

\* await new Promise(resolve => setTimeout(resolve, 100)), then the loop test
WaitRetry ==
    /\ upd.pc = "wait"
    /\ upd' = [upd EXCEPT !.pc = "write"]
    /\ UNCHANGED <<settings, dbSettings, streakVars, habitVars, finVars, viewVars,
                 goalVars, rate, streakAgain, healthVars, calcVars, contribs>>

\* storage.setCurrency and storage.setMeasurementUnit, whose failure is caught;
\* updateSettings returns
UpdateStorage(ok) ==
    /\ upd.pc = "storage"
    /\ upd' = [upd EXCEPT !.pc = "returned"]
    /\ UNCHANGED <<settings, dbSettings, streakVars, habitVars, finVars, viewVars,
                 goalVars, rate, streakAgain, healthVars, calcVars, contribs>>

---------------------------------------------------------------------------
(* Specifications *)

\* the providers as constructed: useState([]) everywhere, empty tables, no
\* handler running, calculateStreak not called
Init ==
    /\ entries = <<>>
    /\ streak = NoResult
    /\ habits = <<>>
    /\ habitEntries = <<>>
    /\ dbHabits = <<>>
    /\ dbHabitEntries = <<>>
    /\ nextId = 1
    /\ calls = [k \in 1..MaxCalls |-> IdleCall]
    /\ transactions = <<>>
    /\ budgets = <<>>
    /\ dbTransactions = <<>>
    /\ dbBudgets = <<>>
    /\ nextFinId = 1
    /\ fin = NoFin
    /\ alerted = {}
    /\ nowTime = Today * TicksPerDay
    /\ shown = NoShown
    /\ goals = <<>>
    /\ dbGoals = <<>>
    /\ nextGoalId = 1
    /\ selectedGoal = NoGoal
    /\ ledger = <<>>
    /\ rate = NoRate
    /\ streakAgain = NoResult
    /\ weightEntries = <<>>
    /\ dbWeightEntries = <<>>
    /\ nextWeightId = 1
    /\ userProfile = NoProfile
    /\ measurements = NoMeasurements
    /\ bodyFat = NoBodyFat
    /\ bmi = 0
    /\ bmiCategory = NoCategory
    /\ contribs = [k \in 1..MaxCalls |-> IdleContribution]
    /\ settings = DefaultSettings
    /\ dbSettings = DefaultSettings
    /\ upd = IdleUpdate

\* as Init, with a history about to be handed to calculateStreak
InitStreak ==
    /\ entries \in Histories
    /\ streak = NoResult
    /\ habits = <<>>
    /\ habitEntries = <<>>
    /\ dbHabits = <<>>
    /\ dbHabitEntries = <<>>
    /\ nextId = 1
    /\ calls = [k \in 1..MaxCalls |-> IdleCall]
    /\ transactions = <<>>
    /\ budgets = <<>>
    /\ dbTransactions = <<>>
    /\ dbBudgets = <<>>
    /\ nextFinId = 1
    /\ fin = NoFin
    /\ alerted = {}
    /\ nowTime = Today * TicksPerDay
    /\ shown = NoShown
    /\ goals = <<>>
    /\ dbGoals = <<>>
    /\ nextGoalId = 1
    /\ selectedGoal = NoGoal
    /\ ledger = <<>>
    /\ rate = NoRate
    /\ streakAgain = NoResult
    /\ weightEntries = <<>>
    /\ dbWeightEntries = <<>>
    /\ nextWeightId = 1
    /\ userProfile = NoProfile
    /\ measurements = NoMeasurements
    /\ bodyFat = NoBodyFat
    /\ bmi = 0
    /\ bmiCategory = NoCategory
    /\ contribs = [k \in 1..MaxCalls |-> IdleContribution]
    /\ settings = DefaultSettings
    /\ dbSettings = DefaultSettings
    /\ upd = IdleUpdate

\* the finance screens about to render: transactions entered through the
\* form, their rows, and budgets with the spent the recompute cached
InitView ==
    /\ entries = <<>>
    /\ streak = NoResult
    /\ habits = <<>>
    /\ habitEntries = <<>>
    /\ dbHabits = <<>>
    /\ dbHabitEntries = <<>>
    /\ nextId = 1
    /\ calls = [k \in 1..MaxCalls |-> IdleCall]
    /\ transactions \in ViewTransactions
    /\ dbTransactions = rowsOf(transactions)
    /\ budgets \in ViewBudgets(dbTransactions)
    /\ dbBudgets = budgets
    /\ nextFinId = 1
    /\ fin = NoFin
    /\ alerted = {}
    /\ nowTime \in NowTimes
    /\ shown = NoShown
    /\ goals = <<>>
    /\ dbGoals = <<>>
    /\ nextGoalId = 1
    /\ selectedGoal = NoGoal
    /\ ledger = <<>>
    /\ rate = NoRate
    /\ streakAgain = NoResult
    /\ weightEntries = <<>>
    /\ dbWeightEntries = <<>>
    /\ nextWeightId = 1
    /\ userProfile = NoProfile
    /\ measurements = NoMeasurements
    /\ bodyFat = NoBodyFat
    /\ bmi = 0
    /\ bmiCategory = NoCategory
    /\ contribs = [k \in 1..MaxCalls |-> IdleContribution]
    /\ settings = DefaultSettings
    /\ dbSettings = DefaultSettings
    /\ upd = IdleUpdate

\* calculateStreak applied to every bounded history
NextStreak == CalculateStreak
SpecStreak == InitStreak /\ [][NextStreak]_vars

\* the habit handlers called one after another
NextHabits ==
    \/ \E t \in Targets : AddHabit(t)
    \/ \E id \in HabitIds, t \in Targets : UpdateHabit(id, t)
    \/ \E id \in HabitIds : DeleteHabit(id)
    \/ \E id \in HabitIds, d \in LogDays, c \in Counts : MarkHabitComplete(id, d, c)
    \/ \E id \in HabitIds, d \in LogDays : MarkHabitIncomplete(id, d)
SpecHabits == Init /\ [][NextHabits]_vars

\* markHabitComplete and markHabitIncomplete calls that overlap in time; the
\* screens' handlers (handleHabitToggle, handleIncrementCount, ...) pass today
NextOverlap ==
    \/ \E t \in Targets : AddHabit(t)
    \/ \E k \in CallIds, id \in HabitIds, c \in Counts : StartComplete(k, id, Today, c)
    \/ \E k \in CallIds, id \in HabitIds : StartIncomplete(k, id, Today)
    \/ \E k \in CallIds : StepSelect(k)
    \/ \E k \in CallIds : StepWrite(k)
    \/ \E k \in CallIds : StepSet(k)
SpecOverlap == Init /\ [][NextOverlap]_vars

\* the finance handlers called one after another, and app starts
NextFinance ==
    \/ Mount
    \/ \E a \in TxAmounts, c \in Categories, ty \in TxTypes, d \in FinDates :
           AddTransaction(a, c, ty, d)
    \/ \E id \in 1..MaxFinIds, a \in TxAmounts, c \in Categories, ty \in TxTypes,
          d \in FinDates : UpdateTransaction(id, a, c, ty, d)
    \/ \E id \in 1..MaxFinIds : DeleteTransaction(id)
    \/ \E c \in Categories, a \in BudgetAmounts, p \in Periods : AddBudget(c, a, p)
    \/ \E id \in 1..MaxFinIds, c \in Categories, a \in BudgetAmounts, p \in Periods :
           UpdateBudget(id, c, a, p)
    \/ \E id \in 1..MaxFinIds : DeleteBudget(id)
    \/ RecomputeAll
    \/ RecomputeOne
SpecFinance == Init /\ [][NextFinance]_vars

\* the finance screens rendering what the form and a load left in memory
NextView ==
    \/ \E tz \in TzShifts : LoadTransactions(tz)
    \/ Render
SpecView == InitView /\ [][NextView]_vars

\* addGoal, deleteGoal and addGoalContribution called one after another
NextGoals ==
    \/ \E t \in GoalTargets, c \in 0..MaxDelta : AddGoal(t, c)
    \/ \E id \in GoalIds : DeleteGoal(id)
    \/ \E id \in GoalIds, d \in Deltas : AddGoalContribution(id, d)
SpecGoals == Init /\ [][NextGoals]_vars

\* the goals screen: new goals start at 0, contributions go through the form
NextGoalsScreen ==
    \/ \E t \in GoalTargets : AddGoal(t, 0)
    \/ \E id \in GoalIds : DeleteGoal(id)
    \/ \E id \in GoalIds : HandleContribution(id)
    \/ \E ty \in ContributionTypes, a \in BaseAmounts : SubmitContribution(ty, a)
SpecGoalsScreen == Init /\ [][NextGoalsScreen]_vars

\* markHabitComplete and markHabitIncomplete called on the context with any
\* date, one after another
NextHabitsAnyDate ==
    \/ \E t \in Targets : AddHabit(t)
    \/ \E id \in HabitIds, d \in AnyDays, c \in Counts : MarkHabitComplete(id, d, c)
    \/ \E id \in HabitIds, d \in AnyDays : MarkHabitIncomplete(id, d)
SpecHabitsAnyDate == Init /\ [][NextHabitsAnyDate]_vars

\* calculateCompletionRate applied to every short history
InitRate ==
    /\ entries \in Histories
    /\ streak = NoResult
    /\ habits = <<>>
    /\ habitEntries = <<>>
    /\ dbHabits = <<>>
    /\ dbHabitEntries = <<>>
    /\ nextId = 1
    /\ calls = [k \in 1..MaxCalls |-> IdleCall]
    /\ transactions = <<>>
    /\ budgets = <<>>
    /\ dbTransactions = <<>>
    /\ dbBudgets = <<>>
    /\ nextFinId = 1
    /\ fin = NoFin
    /\ alerted = {}
    /\ nowTime = Today * TicksPerDay
    /\ shown = NoShown
    /\ goals = <<>>
    /\ dbGoals = <<>>
    /\ nextGoalId = 1
    /\ selectedGoal = NoGoal
    /\ ledger = <<>>
    /\ rate = NoRate
    /\ streakAgain = NoResult
    /\ weightEntries = <<>>
    /\ dbWeightEntries = <<>>
    /\ nextWeightId = 1
    /\ userProfile = NoProfile
    /\ measurements = NoMeasurements
    /\ bodyFat = NoBodyFat
    /\ bmi = 0
    /\ bmiCategory = NoCategory
    /\ contribs = [k \in 1..MaxCalls |-> IdleContribution]
    /\ settings = DefaultSettings
    /\ dbSettings = DefaultSettings
    /\ upd = IdleUpdate
NextRate == \E n \in RateTotals : CalculateCompletionRate(n)
SpecRate == InitRate /\ [][NextRate]_vars

\* the weight entry handlers called one after another, and reloads
NextWeight ==
    \/ LoadHealthData
    \/ \E w \in Weights, d \in WeightDays : AddWeightEntry(w, d)
    \/ \E id \in WeightIds, w \in Weights, d \in WeightDays : UpdateWeightEntry(id, w, d)
    \/ \E id \in WeightIds : DeleteWeightEntry(id)
SpecWeight == Init /\ [][NextWeight]_vars

\* getBMICategory applied to every bmi from 17.00 to 31.00
InitBmi ==
    /\ entries = <<>>
    /\ streak = NoResult
    /\ habits = <<>>
    /\ habitEntries = <<>>
    /\ dbHabits = <<>>
    /\ dbHabitEntries = <<>>
    /\ nextId = 1
    /\ calls = [k \in 1..MaxCalls |-> IdleCall]
    /\ transactions = <<>>
    /\ budgets = <<>>
    /\ dbTransactions = <<>>
    /\ dbBudgets = <<>>
    /\ nextFinId = 1
    /\ fin = NoFin
    /\ alerted = {}
    /\ nowTime = Today * TicksPerDay
    /\ shown = NoShown
    /\ goals = <<>>
    /\ dbGoals = <<>>
    /\ nextGoalId = 1
    /\ selectedGoal = NoGoal
    /\ ledger = <<>>
    /\ rate = NoRate
    /\ streakAgain = NoResult
    /\ weightEntries = <<>>
    /\ dbWeightEntries = <<>>
    /\ nextWeightId = 1
    /\ userProfile = NoProfile
    /\ measurements = NoMeasurements
    /\ bodyFat = NoBodyFat
    /\ bmi \in BmiValues
    /\ bmiCategory = NoCategory
    /\ contribs = [k \in 1..MaxCalls |-> IdleContribution]
    /\ settings = DefaultSettings
    /\ dbSettings = DefaultSettings
    /\ upd = IdleUpdate
NextBmi == GetBMICategory
SpecBmi == InitBmi /\ [][NextBmi]_vars

\* calculateBodyFatFromMeasurements applied to every profile and measurements
InitBodyFat ==
    /\ entries = <<>>
    /\ streak = NoResult
    /\ habits = <<>>
    /\ habitEntries = <<>>
    /\ dbHabits = <<>>
    /\ dbHabitEntries = <<>>
    /\ nextId = 1
    /\ calls = [k \in 1..MaxCalls |-> IdleCall]
    /\ transactions = <<>>
    /\ budgets = <<>>
    /\ dbTransactions = <<>>
    /\ dbBudgets = <<>>
    /\ nextFinId = 1
    /\ fin = NoFin
    /\ alerted = {}
    /\ nowTime = Today * TicksPerDay
    /\ shown = NoShown
    /\ goals = <<>>
    /\ dbGoals = <<>>
    /\ nextGoalId = 1
    /\ selectedGoal = NoGoal
    /\ ledger = <<>>
    /\ rate = NoRate
    /\ streakAgain = NoResult
    /\ weightEntries = <<>>
    /\ dbWeightEntries = <<>>
    /\ nextWeightId = 1
    /\ userProfile \in [gender : Genders]
    /\ measurements \in [height : Heights, waist : Waists, neck : Necks, hip : Hips]
    /\ bodyFat = NoBodyFat
    /\ bmi = 0
    /\ bmiCategory = NoCategory
    /\ contribs = [k \in 1..MaxCalls |-> IdleContribution]
    /\ settings = DefaultSettings
    /\ dbSettings = DefaultSettings
    /\ upd = IdleUpdate
NextBodyFat == CalculateBodyFatFromMeasurements
SpecBodyFat == InitBodyFat /\ [][NextBodyFat]_vars

\* calculateStreak called twice on every short history
NextStreakTwice ==
    \/ CalculateStreakFirst
    \/ CalculateStreakAgain
SpecStreakTwice == InitStreak /\ [][NextStreakTwice]_vars

\* addGoalContribution calls that overlap in time
NextGoalOverlap ==
    \/ \E t \in GoalTargets : AddGoal(t, 0)
    \/ \E k \in CallIds, id \in GoalIds, d \in Deposits : StartContribution(k, id, d)
    \/ \E k \in CallIds : StepContributionWrite(k)
    \/ \E k \in CallIds : StepContributionSet(k)
SpecGoalOverlap == Init /\ [][NextGoalOverlap]_vars

\* updateSettings calls, one after another; every await resolves or rejects
NextSettings ==
    \/ \E c \in Currencies, t \in Themes, ready \in BOOLEAN : UpdateSettings(c, t, ready)
    \/ \E ok \in BOOLEAN : AttemptWrite(ok)
    \/ WaitRetry
    \/ \E ok \in BOOLEAN : UpdateStorage(ok)
SettingsStep ==
    \/ \E ok \in BOOLEAN : AttemptWrite(ok)
    \/ WaitRetry
    \/ \E ok \in BOOLEAN : UpdateStorage(ok)
SpecSettings == Init /\ [][NextSettings]_vars /\ WF_vars(SettingsStep)

---------------------------------------------------------------------------
(* What the claims compare the code with *)

\* the length of the run of completed entries, each one day before the one
\* ahead of it, that starts at index i of a date-descending history
RECURSIVE RunLen(_, _)
RunLen(s, i) ==
    IF i > Len(s) \/ ~s[i].completed THEN 0
    ELSE IF i < Len(s) /\ s[i + 1].completed /\ s[i].date - s[i + 1].date = 1
    THEN 1 + RunLen(s, i + 1)
    ELSE 1

MaxOver(S) ==
    IF S = {} THEN 0
    ELSE LET x == CHOOSE y \in S : \A z \in S : z <= y IN x

LongestRun(s) == MaxOver({RunLen(s, i) : i \in DOMAIN s})

MostRecent(es) == MaxOver({es[i].date : i \in DOMAIN es})

\* the days on which a history holds a completed entry
CompletedOn(es) == {es[i].date : i \in {j \in DOMAIN es : es[j].completed}}

\* the history is one entry per day, completed on exactly the days D
CompletedExactlyOn(es, D) ==
    /\ CompletedOn(es) = D
    /\ \A i, j \in DOMAIN es : es[i].date = es[j].date => i = j

---------------------------------------------------------------------------
(* Claims about calculateStreak, under SpecStreak *)

\* C4: calculateStreak's current is the number of consecutive completed
\* calendar days counted back from the most recent entry (0 when that entry is
\* older than yesterday or not completed); a history completed on today,
\* today-1 and today-2 and not before gives current = 3.
C4_CurrentCountsBack ==
    streak # NoResult =>
        LET s == SortDesc(entries) IN
        /\ streak.current =
              IF s # <<>> /\ Today - s[1].date <= 1 THEN RunLen(s, 1) ELSE 0
        /\ CompletedExactlyOn(entries, {Today, Today - 1, Today - 2})
              => streak.current = 3

\* C5: longest is the length of the longest run of completed entries, in
\* date-descending order, whose consecutive dates differ by exactly one day;
\* two 2-day runs a gap day apart give longest = 2.
C5_LongestIsLongestRun ==
    streak # NoResult =>
        /\ streak.longest = LongestRun(SortDesc(entries))
        /\ CompletedExactlyOn(entries, {Today, Today - 1, Today - 3, Today - 4})
              => streak.longest = 2

C5_Witness ==
    /\ streak # NoResult
    /\ CompletedExactlyOn(entries, {Today, Today - 1, Today - 3, Today - 4})
    /\ streak.longest = 2

\* C6: when the most recent entry is more than one day old, current is 0
\* whatever older runs exist, and longest is still the longest of those runs.
C6_StaleHistoryHasNoCurrent ==
    (streak # NoResult /\ entries # <<>> /\ Today - MostRecent(entries) > 1) =>
        /\ streak.current = 0
        /\ streak.longest = LongestRun(SortDesc(entries))

C6_Witness ==
    /\ streak # NoResult
    /\ CompletedExactlyOn(entries, {Today - 2, Today - 3})
    /\ streak.current = 0
    /\ streak.longest = 2

---------------------------------------------------------------------------
(* Claims about the habit entry store *)

\* the habits of list hs with the id of entry e
HabitsOf(hs, e) == {i \in DOMAIN hs : hs[i].id = e.habitId}

\* C7: in every state reached by addHabit, updateHabit, markHabitComplete and
\* markHabitIncomplete, every entry, in memory and persisted, has
\* completed = (count >= targetCount of its habit).
C7_CompletedIffTargetMet ==
    /\ \A i \in DOMAIN habitEntries : \A j \in HabitsOf(habits, habitEntries[i]) :
          habitEntries[i].completed
              = (habitEntries[i].count >= habits[j].targetCount)
    /\ \A i \in DOMAIN dbHabitEntries : \A j \in HabitsOf(dbHabits, dbHabitEntries[i]) :
          dbHabitEntries[i].completed
              = (dbHabitEntries[i].count >= dbHabits[j].targetCount)

\* no two rows of es are for the same (habitId, date)
OnePerDay(es) ==
    \A i, j \in DOMAIN es :
        (es[i].habitId = es[j].habitId /\ es[i].date = es[j].date) => i = j

\* C8: after any markHabitComplete and markHabitIncomplete calls, overlapping
\* ones included, habit_entries holds at most one row and habitEntries at most
\* one entry per (habitId, date).
C8_OneEntryPerDay ==
    NoCallPending => (OnePerDay(dbHabitEntries) /\ OnePerDay(habitEntries))

\* es without its i-th entry
Without(es, i) == SubSeq(es, 1, i - 1) \o SubSeq(es, i + 1, Len(es))

\* the entries markHabitIncomplete has reset
ResetEntries == {i \in DOMAIN habitEntries :
                    habitEntries[i].count = 0 /\ ~habitEntries[i].completed}

\* the windows getHabitCompletionRate is asked for
RateWindows == (1..(LogRange + 1)) \cup {7, RateDays}

\* every read but the current streak gives the same over E and over W
SameReads(E, W) ==
    /\ getTodaysHabits(habits, E, Today) = getTodaysHabits(habits, W, Today)
    /\ \A h \in HabitIds :
        /\ \A d \in LogDays :
              getHabitEntry(E, h, d).completed = getHabitEntry(W, h, d).completed
        /\ \A n \in RateWindows :
              getHabitCompletionRate(E, h, n, Today)
                  = getHabitCompletionRate(W, h, n, Today)
        /\ calculateHabitStreak(habits, E, h, Today).longestStreak
              = calculateHabitStreak(habits, W, h, Today).longestStreak

SameCurrent(E, W, h) ==
    calculateHabitStreak(habits, E, h, Today).currentStreak
        = calculateHabitStreak(habits, W, h, Today).currentStreak

\* entry i is the latest-dated entry of its habit
IsLatestOfHabit(es, i) ==
    \A j \in DOMAIN es : es[j].habitId = es[i].habitId => es[j].date <= es[i].date

\* C9 as claimed: a day reset by markHabitIncomplete reads, in every query,
\* as the same history without a row for that day.
C9_ResetReadsAsAbsent ==
    \A i \in ResetEntries :
        /\ SameReads(habitEntries, Without(habitEntries, i))
        /\ \A h \in HabitIds : SameCurrent(habitEntries, Without(habitEntries, i), h)

\* C9 amended: a reset day reads as an absent one in getTodaysHabits, the
\* completion status, getHabitCompletionRate and the longest streak; the
\* current streak is the same too unless the reset day is the habit's latest
\* entry, and then it is 0 with the row.
C9_ResetReadsAsAbsentButCurrent ==
    \A i \in ResetEntries :
        LET W == Without(habitEntries, i) IN
        /\ SameReads(habitEntries, W)
        /\ \A h \in HabitIds :
              IF h = habitEntries[i].habitId /\ IsLatestOfHabit(habitEntries, i)
              THEN calculateHabitStreak(habits, habitEntries, h, Today).currentStreak = 0
              ELSE SameCurrent(habitEntries, W, h)

C9_Witness ==
    \E i \in ResetEntries :
        /\ habitEntries[i].date = Today
        /\ \E j \in DOMAIN habitEntries :
              /\ habitEntries[j].habitId = habitEntries[i].habitId
              /\ habitEntries[j].date = Today - 1
              /\ habitEntries[j].completed
        /\ ~SameCurrent(habitEntries, Without(habitEntries, i), habitEntries[i].habitId)

\* the rows of es for (habitId, date)
RowsFor(es, habitId, date) ==
    SelectSeq(es, LAMBDA e : IsEntryOf(e, habitId, date))

\* C10: markHabitComplete(h, d, c) applied twice in succession leaves the
\* table and the state as applying it once does: one row, count = c,
\* completed = (c >= target); markHabitIncomplete(h, d) twice is as once.
C10_MarkIsIdempotent ==
    \A h \in HabitIds, d \in LogDays :
        /\ \A c \in Counts :
              LET once == markHabitComplete(habits, habitEntries, dbHabitEntries,
                                            h, d, c)
                  twice == markHabitComplete(habits, once.entries, once.rows, h, d, c)
                  row == [habitId |-> h, date |-> d, count |-> c,
                          completed |-> c >= Head(FindHabit(habits, h)).targetCount]
              IN  ~once.thrown =>
                      /\ twice = once
                      /\ RowsFor(once.rows, h, d) = <<row>>
                      /\ RowsFor(once.entries, h, d) = <<row>>
        /\ LET once == markHabitIncomplete(habitEntries, dbHabitEntries, h, d)
               twice == markHabitIncomplete(once.entries, once.rows, h, d)
           IN  twice = once

\* a state markHabitComplete(h, d, c) has produced, in which the same call
\* comes again
C10_Witness ==
    \E h \in HabitIds, d \in LogDays, c \in Counts :
        /\ FindHabit(habits, h) # <<>>
        /\ RowsFor(dbHabitEntries, h, d) # <<>>
        /\ RowsFor(habitEntries, h, d) # <<>>
        /\ Head(RowsFor(dbHabitEntries, h, d)).count = c
        /\ LET again == markHabitComplete(habits, habitEntries, dbHabitEntries, h, d, c)
           IN  again.rows = dbHabitEntries /\ again.entries = habitEntries

---------------------------------------------------------------------------
(* Claims about the budget-spend cache, under SpecFinance *)

RECURSIVE SumOver(_, _)
SumOver(rows, I) ==
    IF I = {} THEN 0
    ELSE LET i == CHOOSE j \in I : TRUE IN rows[i].amount + SumOver(rows, I \ {i})

\* the sum of the expense transactions of the budget's category dated within
\* the budget's current period window, 0 when there is none
ExpectedSpent(b) ==
    SumOver(dbTransactions,
            {i \in DOMAIN dbTransactions :
                /\ dbTransactions[i].type = "expense"
                /\ dbTransactions[i].category = b.category
                /\ dbTransactions[i].date >= periodStart(b.period, Today)
                /\ dbTransactions[i].date <= periodEnd(b.period, Today)})

\* a handler has returned whose last step was a spend recompute
RecomputeCompleted == fin.pc = "returned" /\ fin.ran \in {"all", "one"}

\* C1: after every completed recompute (all budgets, or the single budget of
\* addBudget) every budget of the store has spent, persisted and in memory,
\* equal to the sum of its category's expenses in its current period window.
C1_SpentIsPeriodSum ==
    RecomputeCompleted =>
        \A i \in DOMAIN dbBudgets :
            /\ dbBudgets[i].spent = ExpectedSpent(dbBudgets[i])
            /\ \E j \in DOMAIN budgets :
                  /\ budgets[j].id = dbBudgets[i].id
                  /\ budgets[j].spent = ExpectedSpent(dbBudgets[i])

\* budget b has the spent of the transactions now in the table, in memory and
\* in its row
SpentIsFresh(b) ==
    /\ b.spent = ExpectedSpent(b)
    /\ \A i \in DOMAIN dbBudgets :
          dbBudgets[i].id = b.id => dbBudgets[i].spent = ExpectedSpent(b)

\* C2: addTransaction, updateTransaction and deleteTransaction return only
\* after an all-budgets recompute that followed their write, and addBudget
\* only after the recompute of the new budget: at the return the budgets the
\* recompute covers carry the spent of the table as written.
C2_ReturnsAfterRecompute ==
    fin.pc = "returned" =>
        /\ fin.op \in {"addTransaction", "updateTransaction", "deleteTransaction"} =>
              /\ fin.ran = "all"
              /\ \A j \in DOMAIN budgets : SpentIsFresh(budgets[j])
        /\ fin.op = "addBudget" =>
              /\ fin.ran = "one"
              /\ \E j \in DOMAIN budgets :
                    budgets[j].id = fin.budget.id /\ SpentIsFresh(budgets[j])

C2_Witness ==
    /\ fin.pc = "returned"
    /\ fin.op = "addTransaction"
    /\ \E j \in DOMAIN budgets : budgets[j].spent > 0 /\ SpentIsFresh(budgets[j])

\* C3: once updateBudget has returned, no budget's cached spent is stale with
\* respect to its current category and period.
C3_NoStaleSpentAfterUpdateBudget ==
    (fin.pc = "returned" /\ fin.op = "updateBudget") =>
        \A j \in DOMAIN budgets : SpentIsFresh(budgets[j])

---------------------------------------------------------------------------
(* Claims about budget alerts, under SpecFinance *)

\* the shares of budget.amount whose crossing is alert-worthy
AlertThresholds == {80, 90, 100}

\* the recompute step takes row i of budgets from below pct to at or above it
CrossesAt(i, pct) ==
    /\ fin.pc = "recompute"
    /\ i \in DOMAIN dbBudgets'
    /\ dbBudgets'[i].id = dbBudgets[i].id
    /\ ~reachesPercent(dbBudgets[i].spent, dbBudgets[i].amount, pct)
    /\ reachesPercent(dbBudgets'[i].spent, dbBudgets'[i].amount, pct)

\* C13: whenever a recompute (the all-budgets pass, or the single-budget
\* recompute that follows addBudget) takes a budget's spent from below to at or
\* above 80%, 90% or 100% of its amount, an alert is raised for that budget
\* during that recompute.
C13_AlertOnCrossing ==
    [][\A i \in DOMAIN dbBudgets : \A pct \in AlertThresholds :
          CrossesAt(i, pct) => dbBudgets[i].id \in alerted']_vars

---------------------------------------------------------------------------
(* Claims about the finance screens' figures, under SpecView *)

\* C11: for every budget, the spent the progress display shows
\* (getMonthlySpending over the in-memory transactions) equals the spent the
\* recompute cached over the same transactions, also when budgets share a
\* category with different periods and for transactions dated on the first
\* and the last day of the window.
C11_ShownSpentIsCachedSpent ==
    shown.rendered =>
        \A i \in DOMAIN budgets : shown.progress[i].spent = budgets[i].spent

\* the smaller of two integers
Min(a, b) == IF a <= b THEN a ELSE b

\* the days on which both D and the day after lie within the current month
ScenarioInstants ==
    {D \in ViewInstants :
        /\ D >= startOfMonthAt(Today * TicksPerDay)
        /\ D + TicksPerDay <= endOfMonthAt(Today * TicksPerDay)}

\* food expenses of 100 and 50 on D and D + 1 against a monthly food budget
\* of 200
ScenarioProgress(D, now) ==
    LET budget == [id |-> 3, category |-> "food", amount |-> 200,
                   period |-> "monthly", spent |-> 0]
        ts == <<[id |-> 1, amount |-> 100, category |-> "food", type |-> "expense",
                 date |-> D],
                [id |-> 2, amount |-> 50, category |-> "food", type |-> "expense",
                 date |-> D + TicksPerDay]>>
    IN  getBudgetProgress(<<budget>>, ts, budget, now)

\* C12: for every budget with amount > 0 and every non-negative spend,
\* getBudgetProgress returns percentage = min(spent / amount * 100, 100) and
\* remaining = max(amount - spent, 0), so percentage <= 100 and remaining >= 0;
\* food expenses of 100 and 50 in the current month against a monthly food
\* budget of 200 give spent 150, percentage 75, remaining 50.
C12_ProgressIsClamped ==
    shown.rendered =>
        /\ \A i \in DOMAIN budgets :
              LET p == shown.progress[i]
                  amount == budgets[i].amount
              IN  (amount > 0 /\ p.spent >= 0) =>
                      /\ p.percentage.num * amount
                            = Min(p.spent * 100, 100 * amount) * p.percentage.den
                      /\ p.percentage.num <= 100 * p.percentage.den
                      /\ p.remaining = Max(amount - p.spent, 0)
                      /\ p.remaining >= 0
        /\ \A D \in ScenarioInstants :
              LET p == ScenarioProgress(D, nowTime)
              IN  /\ p.spent = 150
                  /\ p.percentage.num = 75 * p.percentage.den
                  /\ p.remaining = 50

\* a budget shown with more spent than its amount: 100%, nothing remaining
C12_Witness ==
    /\ shown.rendered
    /\ \E i \in DOMAIN budgets :
          /\ shown.progress[i].spent > budgets[i].amount
          /\ shown.progress[i].percentage = [num |-> 100, den |-> 1]
          /\ shown.progress[i].remaining = 0

\* the transactions of type ty whose calendar day lies in the current month
InMonth(ts, ty) ==
    {i \in DOMAIN ts :
        /\ ts[i].type = ty
        /\ formatDay(ts[i].date) >= startOfMonth(Today)
        /\ formatDay(ts[i].date) <= endOfMonth(Today)}

\* C14: getMonthlyBalance returns income = the sum of the income transactions
\* and expenses = the sum of the expense transactions dated within the current
\* month, first and last day included, and balance = income - expenses.
C14_BalanceIsOfTheMonth ==
    shown.rendered =>
        /\ shown.balance.income = SumOver(transactions, InMonth(transactions, "income"))
        /\ shown.balance.expenses
              = SumOver(transactions, InMonth(transactions, "expense"))
        /\ shown.balance.balance = shown.balance.income - shown.balance.expenses

\* one transaction at the last instant of the month, counted, and one at the
\* first instant of the next month, not counted
C14_Witness ==
    /\ shown.rendered
    /\ Len(transactions) = 2
    /\ \E i, j \in DOMAIN transactions :
          /\ transactions[i].date = endOfMonthAt(nowTime)
          /\ transactions[j].date = endOfMonthAt(nowTime) + 1
          /\ shown.balance.income + shown.balance.expenses = transactions[i].amount

\* the days of the current Sunday-to-Saturday week
InWeek(day) ==
    day >= startOfCurrentWeek(Today) /\ day <= startOfCurrentWeek(Today) + 6

InMonthDays(day) == day >= startOfMonth(Today) /\ day <= endOfMonth(Today)

\* the expenses of category c dated on a day of the window
ExpensesIn(ts, c, period) ==
    {i \in DOMAIN ts :
        /\ ts[i].type = "expense"
        /\ ts[i].category = c
        /\ IF period = "month" THEN InMonthDays(formatDay(ts[i].date))
           ELSE InWeek(formatDay(ts[i].date))}

\* category -> summed expenses of the window, for the categories that have one
ExpectedCategorySpending(ts, period) ==
    [c \in {k \in Categories : ExpensesIn(ts, k, period) # {}} |->
        SumOver(ts, ExpensesIn(ts, c, period))]

\* C15: getCategorySpending(period) maps each category to the sum of its
\* expenses dated within the current calendar month for 'month' and within
\* the current Sunday-to-Saturday week for 'week'; income never counts and a
\* category without an expense in the window is absent.
C15_CategorySpendingByPeriod ==
    shown.rendered =>
        /\ shown.month = ExpectedCategorySpending(transactions, "month")
        /\ shown.week = ExpectedCategorySpending(transactions, "week")

\* the goal as the list shows it now
CurrentOf(goalId) == Head(FindGoal(goals, goalId)).currentAmount

\* C16: on the goals screen a withdrawal larger than the goal's current amount
\* is rejected: addGoalContribution is not invoked and the goal is unchanged,
\* so no goal's currentAmount is ever negative, in the list or in the table
C16_WithdrawalNeverOverdraws ==
    /\ \A i \in DOMAIN goals : goals[i].currentAmount >= 0
    /\ \A i \in DOMAIN dbGoals : dbGoals[i].currentAmount >= 0
    /\ (selectedGoal # NoGoal /\ FindGoal(goals, selectedGoal.id) # <<>>) =>
          \A a \in BaseAmounts :
             LET r == submitContribution(goals, dbGoals, selectedGoal, "withdrawal", a)
             IN  CurrentOf(selectedGoal.id) - a < 0 =>
                    /\ ~r.invoked
                    /\ r.goals = goals
                    /\ r.rows = dbGoals

\* the form is open on a goal that holds 2 after deposits, and a withdrawal of
\* 3 is turned down
C16_Witness ==
    /\ selectedGoal # NoGoal
    /\ FindGoal(goals, selectedGoal.id) # <<>>
    /\ CurrentOf(selectedGoal.id) = 2
    /\ ~submitContribution(goals, dbGoals, selectedGoal, "withdrawal", 3).invoked

\* C17: addGoalContribution stores currentAmount + delta without clamping, so
\* after contributions applied one after another every goal holds its first
\* amount plus the sum of the deltas, in the list and in the table
C17_ContributionsAddUp ==
    /\ \A i \in DOMAIN goals : goals[i].currentAmount = ledger[goals[i].id]
    /\ \A i \in DOMAIN dbGoals : dbGoals[i].currentAmount = ledger[dbGoals[i].id]
    /\ \A i \in DOMAIN goals : \A d \in Deltas :
          LET r == addGoalContribution(goals, dbGoals, goals[i].id, d)
          IN  /\ ~r.thrown
              /\ r.goals[i].currentAmount = goals[i].currentAmount + d
              /\ r.rows = r.goals

\* a goal that started at 2 holds a negative amount after a negative delta
C17_Witness ==
    \E i \in DOMAIN goals :
       /\ goals[i].currentAmount < 0
       /\ dbGoals[i].currentAmount = goals[i].currentAmount
       /\ ledger[goals[i].id] = goals[i].currentAmount

\* a / b <= c / d and a / b = c / d for fractions with positive denominators
FracLeq(a, b) == a.num * b.den <= b.num * a.den
FracEq(a, b) == a.num * b.den = b.num * a.den

\* min(count / targetCount, 1) * 100
ClampedProgress(h) ==
    IF h.count >= h.habit.targetCount THEN [num |-> 100, den |-> 1] ELSE habitProgress(h)

\* the equal-weight average of the clamped progress of every habit
ClampedAverage(todaysHabits) ==
    LET sum == SumProgress([i \in DOMAIN todaysHabits |-> ClampedProgress(todaysHabits[i])])
    IN  IF Len(todaysHabits) > 0
        THEN [num |-> sum.num, den |-> sum.den * Len(todaysHabits)]
        ELSE [num |-> 0, den |-> 1]

Hundred == [num |-> 100, den |-> 1]

\* C18: the dashboard's progress for today is the equal-weight average of
\* min(count / targetCount, 1) * 100: no habit contributes more than 100 and
\* the aggregate lies in [0, 100], also after a targetCount was lowered
C18_DashboardProgressClamped ==
    LET todaysHabits == getTodaysHabits(habits, habitEntries, Today) IN
    /\ \A i \in DOMAIN todaysHabits : FracLeq(habitProgress(todaysHabits[i]), Hundred)
    /\ completionPercentage(todaysHabits).num >= 0
    /\ FracLeq(completionPercentage(todaysHabits), Hundred)
    /\ FracEq(completionPercentage(todaysHabits), ClampedAverage(todaysHabits))

\* the days of the window of `days` days ending today on which the habit has
\* a completed entry
CompletedDaysIn(habitId, days) ==
    {d \in (Today - days + 1)..Today :
        \E i \in DOMAIN habitEntries :
           IsEntryOf(habitEntries[i], habitId, d) /\ habitEntries[i].completed}

\* C19: getHabitCompletionRate(habit, days) is the percentage of the window's
\* days that are completed for the habit, so it lies in [0, 100], whatever
\* dates markHabitComplete and markHabitIncomplete were called with
C19_CompletionRateIsPercentage ==
    \A id \in HabitIds : \A days \in RateWindows :
       LET r == getHabitCompletionRate(habitEntries, id, days, Today) IN
       /\ r.num >= 0
       /\ FracLeq(r, Hundred)
       /\ FracEq(r, [num |-> 100 * Cardinality(CompletedDaysIn(id, days)), den |-> days])

\* how many entries of s are completed, counted one by one
RECURSIVE CompletedCount(_)
CompletedCount(s) ==
    IF s = <<>> THEN 0
    ELSE (IF Head(s).completed THEN 1 ELSE 0) + CompletedCount(Tail(s))

\* RateDays completed entries
FullMonth == [i \in 1..RateDays |-> [date |-> Today, completed |-> TRUE]]

\* C20: calculateCompletionRate(entries, totalDays) is the number of completed
\* entries / totalDays * 100, and 0 when totalDays = 0; no entries with 30
\* days give 0 and 30 completed entries with 30 days give 100
C20_CompletionRateFormula ==
    /\ rate # NoRate =>
          /\ rate.den > 0
          /\ rate.totalDays = 0 => rate.num = 0
          /\ rate.totalDays # 0 =>
                FracEq(rate, [num |-> CompletedCount(entries) * 100, den |-> rate.totalDays])
    /\ calculateCompletionRate(<<>>, RateDays).num = 0
    /\ FracEq(calculateCompletionRate(FullMonth, RateDays), Hundred)

\* a history of MaxEntries completed entries rated over MaxEntries days: 100
C20_Witness ==
    /\ rate # NoRate
    /\ rate.totalDays = MaxEntries
    /\ Len(entries) = MaxEntries
    /\ CompletedCount(entries) = MaxEntries
    /\ FracEq(rate, Hundred)

\* ws is ordered by date, newest first
IsDateDesc(ws) == \A i \in 1..(Len(ws) - 1) : ws[i].date >= ws[i + 1].date

\* C21: after any sequence of addWeightEntry, updateWeightEntry and
\* deleteWeightEntry the in-memory weight entries are ordered by date
\* descending, so getLatestWeight returns an entry with the latest date
C21_WeightEntriesNewestFirst ==
    /\ IsDateDesc(weightEntries)
    /\ \A i \in DOMAIN weightEntries :
          getLatestWeight(weightEntries).date >= weightEntries[i].date

\* the entries of the window of `days` days ending today
InWindow(days) ==
    {i \in DOMAIN weightEntries : weightEntries[i].date > Today - days
                                    /\ weightEntries[i].date <= Today}

\* newest-dated weight minus oldest-dated weight of the window, for every
\* choice among entries of the same date
WindowChanges(days) ==
    LET W == InWindow(days)
        newest == {i \in W : \A j \in W : weightEntries[i].date >= weightEntries[j].date}
        oldest == {i \in W : \A j \in W : weightEntries[i].date <= weightEntries[j].date}
    IN  {weightEntries[i].weight - weightEntries[j].weight : i \in newest, j \in oldest}

\* the trend the window's change gives
TrendOf(change) ==
    [trend |-> IF Abs(change) < 1 THEN "stable" ELSE IF change > 0 THEN "up" ELSE "down",
     change |-> Abs(change)]

C24_BmiBoundariesGoUp ==
    /\ bmiCategory # NoCategory =>
          /\ bmiCategory = "Underweight" <=> bmi < 1850
          /\ bmiCategory = "Normal" <=> (1850 <= bmi /\ bmi < 2500)
          /\ bmiCategory = "Overweight" <=> (2500 <= bmi /\ bmi < 3000)
          /\ bmiCategory = "Obese" <=> bmi >= 3000
    /\ getBMICategory(1849) = "Underweight"
    /\ getBMICategory(1850) = "Normal"
    /\ getBMICategory(2499) = "Normal"
    /\ getBMICategory(2500) = "Overweight"
    /\ getBMICategory(2999) = "Overweight"
    /\ getBMICategory(3000) = "Obese"

\* a bmi of exactly 25 was categorised as Overweight
C24_Witness == bmi = 2500 /\ bmiCategory = "Overweight"

\* something calculateBodyFatFromMeasurements needs is missing
Missing ==
    \/ userProfile.gender = "none"
    \/ measurements.height = 0
    \/ measurements.waist = 0
    \/ measurements.neck = 0
    \/ userProfile.gender = "female" /\ measurements.hip = 0

\* what the Navy formula gives for the profile and the measurements
Formula ==
    calculateBodyFat(userProfile.gender, measurements.waist, measurements.neck,
                     measurements.height, measurements.hip)

\* C23: calculateBodyFatFromMeasurements never throws and never returns a
\* value outside [3, 50]: it returns null when gender, height, waist or neck is
\* missing, for a female without hip, and when the Navy formula gives NaN or a
\* value below 3 or above 50 (as with waist <= neck); otherwise the formula's
\* value
C23_BodyFatInRangeOrUnavailable ==
    bodyFat.called =>
       /\ ~bodyFat.thrown
       /\ bodyFat.available => (bodyFat.value >= 30 /\ bodyFat.value <= 500)
       /\ Missing => ~bodyFat.available
       /\ (userProfile.gender = "male" /\ measurements.waist <= measurements.neck)
             => ~bodyFat.available
       /\ (~Missing /\ (Formula.kind = "NaN" \/ Formula.value < 30 \/ Formula.value > 500))
             => ~bodyFat.available
       /\ (~Missing /\ Formula.kind = "number" /\ Formula.value >= 30
              /\ Formula.value <= 500)
             => (bodyFat.available /\ bodyFat.value = Formula.value)

\* nothing is missing and the formula gives more than 50: not available
C23_Witness ==
    /\ bodyFat.called
    /\ ~Missing
    /\ Formula.kind = "number"
    /\ Formula.value > 500
    /\ ~bodyFat.available

C28_StreakBounds ==
    streak # NoResult =>
       /\ 0 <= streak.current
       /\ streak.current <= streak.longest
       /\ streak.longest <= CompletedCount(entries)
       /\ CompletedCount(entries) = 0 => streak = [current |-> 0, longest |-> 0]

\* a history with an uncompleted entry and a run shorter than its completed
\* entries: current 1, longest 2, three completed
C28_Witness ==
    /\ streak = [current |-> 1, longest |-> 2]
    /\ CompletedCount(entries) = 3
    /\ Len(entries) = MaxEntries

\* C26: when loadFinanceData has completed, the in-memory budgets are the rows
\* of the budgets table, one budget per row, each with its recomputed spent:
\* the recompute that ends the load does not drop the budgets just loaded
C26_LoadKeepsBudgets ==
    (fin.pc = "returned" /\ fin.op = "loadFinanceData") =>
       /\ Len(budgets) = Len(dbBudgets)
       /\ \A i \in DOMAIN dbBudgets :
             /\ i \in DOMAIN budgets
             /\ budgets[i].id = dbBudgets[i].id
             /\ budgets[i].spent = spentFor(dbBudgets[i], dbTransactions, Today)

\* C27: when addGoalContribution calls on one goal overlap in time, the
\* persisted and the in-memory currentAmount, once every call has returned,
\* are the first amount plus every delta: no contribution is lost
C27_NoContributionLost ==
    (\A k \in CallIds : contribs[k].pc = "idle") =>
       /\ \A i \in DOMAIN goals : goals[i].currentAmount = ledger[goals[i].id]
       /\ \A i \in DOMAIN dbGoals : dbGoals[i].currentAmount = ledger[dbGoals[i].id]

\* C29: after any sequence of addHabit, markHabitComplete, markHabitIncomplete
\* and deleteHabit every habit entry, persisted or in memory, refers to a habit
\* that exists, and markHabitComplete for an id that is not in the habit list
\* throws without creating or changing an entry
C29_NoOrphanEntries ==
    /\ \A i \in DOMAIN habitEntries : FindHabit(habits, habitEntries[i].habitId) # <<>>
    /\ \A i \in DOMAIN dbHabitEntries :
          FindHabit(dbHabits, dbHabitEntries[i].habitId) # <<>>
    /\ \A id \in HabitIds :
          FindHabit(habits, id) = <<>> =>
             \A d \in LogDays, c \in Counts :
                LET r == markHabitComplete(habits, habitEntries, dbHabitEntries, id, d, c)
                IN  r.thrown /\ r.rows = dbHabitEntries /\ r.entries = habitEntries

\* habit 1 was deleted, habit 2 is left with an entry, and marking habit 1
\* throws
C29_Witness ==
    /\ nextId = 3
    /\ FindHabit(habits, 1) = <<>>
    /\ FindHabit(habits, 2) # <<>>
    /\ \E i \in DOMAIN dbHabitEntries : dbHabitEntries[i].habitId = 2
    /\ markHabitComplete(habits, habitEntries, dbHabitEntries, 1, Today, 1).thrown

\* what holds of an updateSettings call at every step
SettingsCallBounds ==
    /\ ~upd.thrown
    /\ upd.attempts <= 3
    /\ upd.written => upd.pc \in {"storage", "returned"}
    /\ upd.pc # "idle" => settings = upd.updatedSettings
    /\ ~upd.ready => (upd.attempts = 0 /\ upd.pc \in {"idle", "returned"})
    /\ (upd.pc = "returned" /\ upd.ready /\ ~upd.written) => upd.attempts = 3
    /\ upd.written => dbSettings = upd.updatedSettings

\* C30: updateSettings always terminates without throwing: at most 3 write
\* attempts, none after the first success; when all 3 fail it returns normally
\* with the in-memory settings holding the new values; when the database is
\* not ready it makes no attempt
C30_UpdateSettingsTerminates ==
    /\ []SettingsCallBounds
    /\ (upd.pc \in {"write", "wait", "storage"}) ~> (upd.pc = "returned")

\* a call returned after three failed writes: memory has the new values, the
\* store does not
C30_Witness ==
    /\ upd.pc = "returned"
    /\ upd.attempts = 3
    /\ ~upd.written
    /\ settings = upd.updatedSettings
    /\ dbSettings # settings

====
